---- MODULE Spec2Model ----
(***************************************************************************)
(* plotez: the dual-axes request validation, the label-resolution policy   *)
(* and the style-parameter objects (LinePlot, ScatterPlot, ErrorPlot,      *)
(* SubPlots) of src/src/plotez/backend/utilities.py.                       *)
(*                                                                         *)
(* The library is a set of synchronous functions; a state of the model is  *)
(* the call in progress (its name and arguments), the style object it      *)
(* acts on, and what the call returned or raised.                          *)
(***************************************************************************)
EXTENDS Integers, Sequences, FiniteSets, TLC

VARIABLES call, obj, ret, drawn

vars == <<call, obj, ret, drawn>>

(***************************************************************************)
(* Bounds of the model.                                                    *)
(***************************************************************************)
\* longest data series handed to the validation
MaxLen == 2
\* longest axis-label list handed to the validation
MaxLabels == 4

(***************************************************************************)
(* Python's Optional[T]: None is the empty sequence, a value v is <<v>>.   *)
(***************************************************************************)
None == <<>>

Some(v) == <<v>>

IsNone(o) == o = None

Get(o) == o[1]

Min(a, b) == IF a < b THEN a ELSE b

\* a data series of n points
Series(n) == [i \in 1..n |-> i]

(***************************************************************************)
(* What a call does: returns a value, or raises.                           *)
(***************************************************************************)
Returns(v) == [raised |-> "", msg |-> "", value |-> Some(v)]

Raises(exc, m) == [raised |-> exc, msg |-> m, value |-> None]

NoCall == [fn |-> "none"]

NoObj == [cls |-> "none"]

NoRet == [raised |-> "", msg |-> "", value |-> None]

(***************************************************************************)
(* dual_axes_data_validation: the four checks, in the order of the code.   *)
(* len(None) raises TypeError before any of them.                          *)
(***************************************************************************)
MsgLabels == "The axis_labels should have a length of 3."

MsgEmpty == "Primary x or y data is empty. Please provide valid data."

MsgDualY == "Dual Y-axis plot requested but 'x2_data' given."

MsgDualX == "Dual X-axis plot requested but 'y2_data' given."

MsgNoLen == "object of type 'NoneType' has no len()"

\* mutant: the dual-X check tests x2_data instead of y2_data
dual_axes_data_validation_swapped(x1_data, x2_data, y1_data, y2_data, use_twin_x, axis_labels) ==
    IF IsNone(axis_labels) THEN Raises("TypeError", MsgNoLen)
    ELSE IF Len(Get(axis_labels)) # 3 THEN Raises("ValueError", MsgLabels)
    ELSE IF Len(x1_data) = 0 \/ Len(y1_data) = 0 THEN Raises("ValueError", MsgEmpty)
    ELSE IF use_twin_x /\ ~IsNone(x2_data) THEN Raises("ValueError", MsgDualY)
    ELSE IF ~use_twin_x /\ ~IsNone(x2_data) THEN Raises("ValueError", MsgDualX)
    ELSE Returns(None)

\* mutant: the emptiness check needs both primary series to be empty
dual_axes_data_validation_both_empty(x1_data, x2_data, y1_data, y2_data, use_twin_x, axis_labels) ==
    IF IsNone(axis_labels) THEN Raises("TypeError", MsgNoLen)
    ELSE IF Len(Get(axis_labels)) # 3 THEN Raises("ValueError", MsgLabels)
    ELSE IF Len(x1_data) = 0 /\ Len(y1_data) = 0 THEN Raises("ValueError", MsgEmpty)
    ELSE IF use_twin_x /\ ~IsNone(x2_data) THEN Raises("ValueError", MsgDualY)
    ELSE IF ~use_twin_x /\ ~IsNone(y2_data) THEN Raises("ValueError", MsgDualX)
    ELSE Returns(None)

\* mutant: the label check accepts any list of at least three labels
dual_axes_data_validation_at_least_3(x1_data, x2_data, y1_data, y2_data, use_twin_x, axis_labels) ==
    IF IsNone(axis_labels) THEN Raises("TypeError", MsgNoLen)
    ELSE IF Len(Get(axis_labels)) < 3 THEN Raises("ValueError", MsgLabels)
    ELSE IF Len(x1_data) = 0 \/ Len(y1_data) = 0 THEN Raises("ValueError", MsgEmpty)
    ELSE IF use_twin_x /\ ~IsNone(x2_data) THEN Raises("ValueError", MsgDualY)
    ELSE IF ~use_twin_x /\ ~IsNone(y2_data) THEN Raises("ValueError", MsgDualX)
    ELSE Returns(None)

\* mutant: a supplied secondary series is also checked for emptiness
dual_axes_data_validation_secondary_checked(x1_data, x2_data, y1_data, y2_data, use_twin_x, axis_labels) ==
    IF IsNone(axis_labels) THEN Raises("TypeError", MsgNoLen)
    ELSE IF Len(Get(axis_labels)) # 3 THEN Raises("ValueError", MsgLabels)
    ELSE IF Len(x1_data) = 0 \/ Len(y1_data) = 0 THEN Raises("ValueError", MsgEmpty)
    ELSE IF use_twin_x /\ ~IsNone(x2_data) THEN Raises("ValueError", MsgDualY)
    ELSE IF ~use_twin_x /\ ~IsNone(y2_data) THEN Raises("ValueError", MsgDualX)
    ELSE IF ~IsNone(y2_data) /\ Len(Get(y2_data)) = 0 THEN Raises("ValueError", MsgEmpty)
    ELSE IF ~IsNone(x2_data) /\ Len(Get(x2_data)) = 0 THEN Raises("ValueError", MsgEmpty)
    ELSE Returns(None)

dual_axes_data_validation(x1_data, x2_data, y1_data, y2_data, use_twin_x, axis_labels) ==
    IF IsNone(axis_labels) THEN Raises("TypeError", MsgNoLen)
    ELSE IF Len(Get(axis_labels)) # 3 THEN Raises("ValueError", MsgLabels)
    ELSE IF Len(x1_data) = 0 \/ Len(y1_data) = 0 THEN Raises("ValueError", MsgEmpty)
    ELSE IF use_twin_x /\ ~IsNone(x2_data) THEN Raises("ValueError", MsgDualY)
    ELSE IF ~use_twin_x /\ ~IsNone(y2_data) THEN Raises("ValueError", MsgDualX)
    ELSE Returns(None)

\* the arguments a caller may pass
DataSeries == {Series(n) : n \in 0..MaxLen}

OptDataSeries == {None} \cup {Some(s) : s \in DataSeries}

LabelNames == <<"X", "Y1", "Y2", "L4", "L5", "L6", "L7", "L8">>

LabelLists == {SubSeq(LabelNames, 1, n) : n \in 0..MaxLabels}

OptLabelLists == {None} \cup {Some(l) : l \in LabelLists}

(***************************************************************************)
(* A call of dual_axes_data_validation with arguments of the caller's      *)
(* choice.                                                                 *)
(***************************************************************************)
CallValidation ==
    /\ call = NoCall
    /\ \E x1 \in DataSeries, y1 \in DataSeries, x2 \in OptDataSeries, y2 \in OptDataSeries,
          tw \in BOOLEAN, al \in OptLabelLists :
        /\ call' = [fn |-> "dual_axes_data_validation", x1_data |-> x1, x2_data |-> x2,
                    y1_data |-> y1, y2_data |-> y2, use_twin_x |-> tw, axis_labels |-> al]
        /\ ret' = dual_axes_data_validation(x1, x2, y1, y2, tw, al)
        /\ obj' = obj
    /\ drawn' = drawn

InitIdle ==
    /\ call = NoCall
    /\ obj = NoObj
    /\ ret = NoRet
    /\ drawn = <<>>

(***************************************************************************)
(* The call is over: the caller has its result and may call again.         *)
(***************************************************************************)
Return ==
    /\ call # NoCall
    /\ "pc" \in DOMAIN call => call.pc = "done"
    /\ call' = NoCall
    /\ ret' = NoRet
    /\ obj' = obj
    /\ drawn' = <<>>

NextValidation == CallValidation \/ Return

SpecValidation == InitIdle /\ [][NextValidation]_vars

(***************************************************************************)
(* Claims on dual_axes_data_validation, checked under SpecValidation.      *)
(***************************************************************************)
InValidation == call.fn = "dual_axes_data_validation"

ThreeLabels == ~IsNone(call.axis_labels) /\ Len(Get(call.axis_labels)) = 3

PrimaryNonEmpty == Len(call.x1_data) > 0 /\ Len(call.y1_data) > 0

RaisedWith(m) == ret.raised = "ValueError" /\ ret.msg = m

\* C1: with three axis labels and non-empty primary data, the validation
\* raises the axis-conflict error when use_twin_x is true and x2_data is
\* supplied, and when use_twin_x is false and y2_data is supplied; so a
\* request that supplies both x2_data and y2_data always fails.
C1_AxisConflict ==
    (InValidation /\ ThreeLabels /\ PrimaryNonEmpty) =>
        /\ (call.use_twin_x /\ ~IsNone(call.x2_data)) => RaisedWith(MsgDualY)
        /\ (~call.use_twin_x /\ ~IsNone(call.y2_data)) => RaisedWith(MsgDualX)
        /\ (~IsNone(call.x2_data) /\ ~IsNone(call.y2_data)) =>
               (RaisedWith(MsgDualY) \/ RaisedWith(MsgDualX))

C1_Witness ==
    /\ InValidation /\ ThreeLabels /\ PrimaryNonEmpty
    /\ ~call.use_twin_x
    /\ ~IsNone(call.x2_data) /\ ~IsNone(call.y2_data)
    /\ RaisedWith(MsgDualX)

\* C2: with exactly three axis labels, the validation raises the empty-data
\* error whenever the primary x series or the primary y series has zero
\* length, whatever the other arguments are.
C2_EmptyPrimary ==
    (InValidation /\ ThreeLabels /\ (Len(call.x1_data) = 0 \/ Len(call.y1_data) = 0)) =>
        RaisedWith(MsgEmpty)

C2_Witness ==
    /\ InValidation /\ ThreeLabels
    /\ Len(call.x1_data) = 0 /\ Len(call.y1_data) > 0
    /\ call.use_twin_x /\ ~IsNone(call.x2_data)
    /\ RaisedWith(MsgEmpty)

\* C3: a present axis-label list whose length is not 3 raises the
\* label-shape error whatever the data and the mode are; an absent list
\* does not raise the label-shape error.
C3_LabelShape ==
    InValidation =>
        /\ (~IsNone(call.axis_labels) /\ Len(Get(call.axis_labels)) # 3) => RaisedWith(MsgLabels)
        /\ IsNone(call.axis_labels) => ~RaisedWith(MsgLabels)

C3_Witness ==
    /\ InValidation
    /\ ~IsNone(call.axis_labels) /\ Len(Get(call.axis_labels)) = 4
    /\ Len(call.x1_data) = 0
    /\ ~IsNone(call.x2_data) /\ ~IsNone(call.y2_data)
    /\ RaisedWith(MsgLabels)

\* C4: a request with exactly three axis labels, non-empty primary series,
\* no x2_data in dual-Y mode and no y2_data in dual-X mode passes the
\* validation, whatever the length of its secondary series.
C4_OnlyFourChecks ==
    (/\ InValidation /\ ThreeLabels /\ PrimaryNonEmpty
     /\ call.use_twin_x => IsNone(call.x2_data)
     /\ ~call.use_twin_x => IsNone(call.y2_data)) =>
        ret.raised = ""

C4_Witness ==
    /\ InValidation /\ ThreeLabels /\ PrimaryNonEmpty
    /\ ~call.use_twin_x /\ IsNone(call.y2_data)
    /\ ~IsNone(call.x2_data) /\ Len(Get(call.x2_data)) = 0
    /\ ret.raised = ""

(***************************************************************************)
(* dual_axes_label_management.  Python's `a or b` is a when a is truthy    *)
(* (neither None nor empty) and b otherwise.                               *)
(***************************************************************************)
OrStr(a, b) == IF ~IsNone(a) /\ Get(a) # "" THEN a ELSE b

OrList(a, b) == IF ~IsNone(a) /\ Len(Get(a)) > 0 THEN a ELSE b

default_axis_labels(use_twin_x) ==
    IF use_twin_x THEN <<"X", "Y1", "Y2">> ELSE <<"X1", "Y", "X2">>

\* mutant: the dual-X data labels as the docstring lists them
default_data_labels_as_documented(use_twin_x) ==
    IF use_twin_x THEN <<"X1 vs Y1", "X1 vs Y2">> ELSE <<"Y vs X1", "X2 vs Y1">>

default_data_labels(use_twin_x) ==
    IF use_twin_x THEN <<"X1 vs Y1", "X1 vs Y2">> ELSE <<"Y vs X1", "Y vs X2">>

default_title == "Plot"

Labels(l11, l12, l21, title, axes) ==
    [x1y1_label |-> l11, x1y2_label |-> l12, x2y1_label |-> l21,
     plot_title |-> title, axis_labels |-> axes]

\* the branch taken when auto_label is true
auto_labels(x1y1_label, x1y2_label, x2y1_label, axis_labels, plot_title, use_twin_x) ==
    Labels(OrStr(x1y1_label, Some(default_data_labels(use_twin_x)[1])),
           IF use_twin_x THEN OrStr(x1y2_label, Some(default_data_labels(use_twin_x)[2]))
                         ELSE x1y2_label,
           IF use_twin_x THEN x2y1_label
                         ELSE OrStr(x2y1_label, Some(default_data_labels(use_twin_x)[2])),
           OrStr(plot_title, Some(default_title)),
           OrList(axis_labels, Some(default_axis_labels(use_twin_x))))

\* mutant: only the label of the mode's secondary series is blanked
manual_labels_by_mode(x1y1_label, x1y2_label, x2y1_label, axis_labels, plot_title, use_twin_x) ==
    Labels(OrStr(x1y1_label, Some("")),
           IF use_twin_x THEN OrStr(x1y2_label, Some("")) ELSE x1y2_label,
           IF use_twin_x THEN x2y1_label ELSE OrStr(x2y1_label, Some("")),
           OrStr(plot_title, Some("")),
           OrList(axis_labels, Some(<<"", "", "">>)))

\* the branch taken when auto_label is false
manual_labels(x1y1_label, x1y2_label, x2y1_label, axis_labels, plot_title, use_twin_x) ==
    Labels(OrStr(x1y1_label, Some("")),
           OrStr(x1y2_label, Some("")),
           OrStr(x2y1_label, Some("")),
           OrStr(plot_title, Some("")),
           OrList(axis_labels, Some(<<"", "", "">>)))

dual_axes_label_management(x1y1_label, x1y2_label, x2y1_label, auto_label, axis_labels, plot_title, use_twin_x) ==
    IF auto_label
    THEN auto_labels(x1y1_label, x1y2_label, x2y1_label, axis_labels, plot_title, use_twin_x)
    ELSE manual_labels(x1y1_label, x1y2_label, x2y1_label, axis_labels, plot_title, use_twin_x)

\* the arguments a caller may pass: absent, empty, or a label of its own
OptLabel(custom) == {None, Some(""), Some(custom)}

OptAxisLabels ==
    {None, Some(<<>>), Some(<<"Xlabel">>), Some(<<"Xlabel", "Ylabel1", "Ylabel2">>)}

(***************************************************************************)
(* A call of dual_axes_label_management with arguments of the caller's     *)
(* choice.                                                                 *)
(***************************************************************************)
CallLabelManagement ==
    /\ call = NoCall
    /\ \E l11 \in OptLabel("Custom1"), l12 \in OptLabel("Custom2"), l21 \in OptLabel("Custom3"),
       title \in OptLabel("Custom Title"), al \in OptAxisLabels,
       auto \in BOOLEAN, tw \in BOOLEAN :
        /\ call' = [fn |-> "dual_axes_label_management", x1y1_label |-> l11,
                    x1y2_label |-> l12, x2y1_label |-> l21, auto_label |-> auto,
                    axis_labels |-> al, plot_title |-> title, use_twin_x |-> tw]
        /\ ret' = Returns(dual_axes_label_management(l11, l12, l21, auto, al, title, tw))
        /\ obj' = obj
    /\ drawn' = drawn

NextLabels == CallLabelManagement \/ Return

SpecLabels == InitIdle /\ [][NextLabels]_vars

(***************************************************************************)
(* Claims on dual_axes_label_management, checked under SpecLabels.         *)
(***************************************************************************)
InLabels == call.fn = "dual_axes_label_management"

AllUnset ==
    /\ IsNone(call.x1y1_label) /\ IsNone(call.x1y2_label) /\ IsNone(call.x2y1_label)
    /\ IsNone(call.plot_title) /\ IsNone(call.axis_labels)

Resolved == Get(ret.value)

C6_ManualBlank ==
    (InLabels /\ ~call.auto_label /\ AllUnset) =>
        /\ Resolved.x1y1_label = Some("")
        /\ Resolved.x1y2_label = Some("")
        /\ Resolved.x2y1_label = Some("")
        /\ Resolved.plot_title = Some("")
        /\ Resolved.axis_labels = Some(<<"", "", "">>)

C6_Witness ==
    /\ InLabels /\ ~call.auto_label /\ AllUnset /\ ~call.use_twin_x
    /\ Resolved.x1y2_label = Some("")

\* C7: every label, title or axis-label list the caller supplies (anything
\* but None, the empty string and the empty list included) comes back
\* unchanged, for both values of auto_label and of use_twin_x.
C7_SuppliedPreserved ==
    InLabels =>
        /\ ~IsNone(call.x1y1_label) => Resolved.x1y1_label = call.x1y1_label
        /\ ~IsNone(call.x1y2_label) => Resolved.x1y2_label = call.x1y2_label
        /\ ~IsNone(call.x2y1_label) => Resolved.x2y1_label = call.x2y1_label
        /\ ~IsNone(call.plot_title) => Resolved.plot_title = call.plot_title
        /\ ~IsNone(call.axis_labels) => Resolved.axis_labels = call.axis_labels

(***************************************************************************)
(* Style values.  A field of a style object holds None, a number, a        *)
(* string, a list or a tuple; the elements of a list or tuple are values   *)
(* themselves.  A string is the sequence of its character codes.           *)
(***************************************************************************)
NoneV == [kind |-> "none", n |-> 0, chars |-> <<>>, items |-> <<>>]

Num(k) == [kind |-> "num", n |-> k, chars |-> <<>>, items |-> <<>>]

Str(cs) == [kind |-> "str", n |-> 0, chars |-> cs, items |-> <<>>]

List(vs) == [kind |-> "list", n |-> 0, chars |-> <<>>, items |-> vs]

Tuple(vs) == [kind |-> "tuple", n |-> 0, chars |-> <<>>, items |-> vs]

\* bool(v)
Truthy(v) ==
    CASE v.kind = "none" -> FALSE
      [] v.kind = "num" -> v.n # 0
      [] v.kind = "str" -> v.chars # <<>>
      [] OTHER -> v.items # <<>>

\* the elements iterating over v yields (a string yields its characters)
Elements(v) ==
    IF v.kind = "str" THEN [i \in 1..Len(v.chars) |-> Str(<<v.chars[i]>>)] ELSE v.items

\* whether v[...] is defined
Subscriptable(v) == v.kind \in {"str", "list", "tuple"}

\* v[:2]
Slice2(v) ==
    CASE v.kind = "str" -> Str(SubSeq(v.chars, 1, Min(2, Len(v.chars))))
      [] v.kind = "list" -> List(SubSeq(v.items, 1, Min(2, Len(v.items))))
      [] v.kind = "tuple" -> Tuple(SubSeq(v.items, 1, Min(2, Len(v.items))))

(***************************************************************************)
(* get_color: matplotlib's colour cycle, repeated CycleRepeat times.       *)
(***************************************************************************)
\* colours in the configured colour cycle (rcParams["axes.prop_cycle"])
CycleLen == 2

CycleRepeat == 10

\* a colour of the cycle: a hex string, shortened to '#' and one digit
CycleColor(i) == Str(<<35, 48 + i>>)

get_color ==
    List([j \in 1..(CycleLen * CycleRepeat) |-> CycleColor(((j - 1) % CycleLen) + 1)])

\* rcParams["figure.figsize"], [6.4, 4.8], in tenths of an inch
FigSize == List(<<Num(64), Num(48)>>)

(***************************************************************************)
(* The alias tables: key of the compact mapping -> attribute.              *)
(***************************************************************************)
\* mutant: the marker-size and marker-edge-width aliases are exchanged
LINE_ATTRS_exchanged ==
    [k \in {"ls", "lw", "color", "alpha", "marker", "ms", "mec", "mfc", "mew"} |->
        CASE k = "ls" -> "line_style"
          [] k = "lw" -> "line_width"
          [] k = "color" -> "color"
          [] k = "alpha" -> "alpha"
          [] k = "marker" -> "marker"
          [] k = "ms" -> "marker_edge_width"
          [] k = "mec" -> "marker_edge_color"
          [] k = "mfc" -> "marker_face_color"
          [] k = "mew" -> "marker_size"]

LINE_ATTRS ==
    [k \in {"ls", "lw", "color", "alpha", "marker", "ms", "mec", "mfc", "mew"} |->
        CASE k = "ls" -> "line_style"
          [] k = "lw" -> "line_width"
          [] k = "color" -> "color"
          [] k = "alpha" -> "alpha"
          [] k = "marker" -> "marker"
          [] k = "ms" -> "marker_size"
          [] k = "mec" -> "marker_edge_color"
          [] k = "mfc" -> "marker_face_color"
          [] k = "mew" -> "marker_edge_width"]

SCATTER_ATTRS ==
    [k \in {"c", "alpha", "marker", "s", "cmap", "fc"} |->
        CASE k = "c" -> "color"
          [] k = "alpha" -> "alpha"
          [] k = "marker" -> "marker"
          [] k = "s" -> "size"
          [] k = "cmap" -> "cmap"
          [] k = "fc" -> "face_color"]

SUBPLOT_ATTRS ==
    [k \in {"sharex", "sharey", "figsize"} |->
        CASE k = "sharex" -> "share_x"
          [] k = "sharey" -> "share_y"
          [] k = "figsize" -> "fig_size"]

\* ErrorPlot.populate: LINE_ATTRS | {capsize, elinewidth, ecolor, capthick}
error_attrs ==
    [k \in DOMAIN LINE_ATTRS \cup {"capsize", "elinewidth", "ecolor", "capthick"} |->
        IF k \in DOMAIN LINE_ATTRS THEN LINE_ATTRS[k] ELSE k]

Classes == {"LinePlot", "ErrorPlot", "ScatterPlot", "SubPlots"}

\* the alias table populate of the class uses
AttrsTable(cls) ==
    CASE cls = "LinePlot" -> LINE_ATTRS
      [] cls = "ErrorPlot" -> error_attrs
      [] cls = "ScatterPlot" -> SCATTER_ATTRS
      [] cls = "SubPlots" -> SUBPLOT_ATTRS

\* table.get(key, key)
Lookup(table, key) == IF key \in DOMAIN table THEN table[key] ELSE key

\* isinstance(an object of class cls, base): ErrorPlot extends LinePlot
IsInstance(cls, base) == cls = base \/ (cls = "ErrorPlot" /\ base = "LinePlot")

(***************************************************************************)
(* Construction.  kw maps every parameter of the constructor to the value  *)
(* passed for it (None when it is left out).                               *)
(***************************************************************************)
BaseAttrs ==
    {"line_style", "line_width", "color", "alpha", "marker", "marker_size",
     "marker_edge_color", "marker_face_color", "marker_edge_width",
     "size", "cmap", "face_color"}

LineParams ==
    <<"line_style", "line_width", "color", "alpha", "marker", "marker_size",
      "marker_edge_color", "marker_face_color", "marker_edge_width">>

ErrorOnlyParams == <<"capsize", "elinewidth", "ecolor", "capthick">>

ScatterParams == <<"color", "alpha", "marker", "size", "cmap", "face_color">>

SubPlotsParams == <<"share_x", "share_y", "fig_size">>

Range(seq) == {seq[i] : i \in DOMAIN seq}

\* the parameters of cls.__init__
InitParams(cls) ==
    CASE cls = "LinePlot" -> Range(LineParams)
      [] cls = "ErrorPlot" -> Range(LineParams) \cup Range(ErrorOnlyParams)
      [] cls = "ScatterPlot" -> Range(ScatterParams)
      [] cls = "SubPlots" -> Range(SubPlotsParams)

\* setattr(instance, name, value)
SetAttr(attrs, name, value) ==
    [a \in DOMAIN attrs \cup {name} |-> IF a = name THEN value ELSE attrs[a]]

\* _PlotParams.__init__
PlotParams_init(kw) == [a \in BaseAttrs |-> IF a \in DOMAIN kw THEN kw[a] ELSE NoneV]

LinePlot_init(kw) ==
    SetAttr(PlotParams_init(kw), "color",
            IF Truthy(kw["color"]) THEN kw["color"] ELSE get_color)

ErrorPlot_init(kw) ==
    [a \in BaseAttrs \cup Range(ErrorOnlyParams) |->
        IF a \in BaseAttrs
        THEN LinePlot_init([p \in Range(LineParams) |-> kw[p]])[a]
        ELSE kw[a]]

ScatterPlot_init(kw) ==
    IF PlotParams_init(kw)["color"].kind = "none"
    THEN SetAttr(PlotParams_init(kw), "color",
                 IF Truthy(kw["color"]) THEN kw["color"] ELSE get_color)
    ELSE PlotParams_init(kw)

SubPlots_init(kw) ==
    [a \in BaseAttrs \cup Range(SubPlotsParams) |->
        CASE a = "share_x" -> kw["share_x"]
          [] a = "share_y" -> kw["share_y"]
          [] a = "fig_size" -> IF kw["fig_size"].kind = "none" THEN FigSize ELSE kw["fig_size"]
          [] OTHER -> NoneV]

\* cls(**kw)
New(cls, kw) ==
    [cls |-> cls,
     attrs |-> CASE cls = "LinePlot" -> LinePlot_init(kw)
                 [] cls = "ErrorPlot" -> ErrorPlot_init(kw)
                 [] cls = "ScatterPlot" -> ScatterPlot_init(kw)
                 [] cls = "SubPlots" -> SubPlots_init(kw)]

\* cls(): every parameter left at its default
NoArgs(cls) == [p \in InitParams(cls) |-> NoneV]

(***************************************************************************)
(* The mappings of a style object.  A dict is the sequence of its items,   *)
(* in insertion order, with no key twice.                                  *)
(***************************************************************************)
Item(k, v) == [key |-> k, value |-> v]

\* d1 == d2: the same keys with equal values, in any order
DictEq(d1, d2) == Range(d1) = Range(d2)

all_labels(cls) ==
    CASE cls = "LinePlot" -> <<"ls", "lw", "color", "alpha", "marker", "ms", "mec", "mfc", "mew">>
      [] cls = "ErrorPlot" ->
            <<"ls", "lw", "color", "alpha", "marker", "ms", "mec", "mfc", "mew">>
            \o <<"capsize", "elinewidth", "ecolor", "capthick">>
      [] cls = "ScatterPlot" -> <<"c", "alpha", "marker", "s", "cmap", "fc">>
      [] cls = "SubPlots" -> <<"sharex", "sharey", "figsize">>

\* the attributes _all_parameters reads, in its order
ParamAttrs(cls) ==
    CASE cls = "LinePlot" -> LineParams
      [] cls = "ErrorPlot" -> LineParams \o ErrorOnlyParams
      [] cls = "ScatterPlot" -> ScatterParams
      [] cls = "SubPlots" -> SubPlotsParams

all_parameters(o) == [i \in DOMAIN ParamAttrs(o.cls) |-> o.attrs[ParamAttrs(o.cls)[i]]]

\* zip(labels, parameters) as a dict
to_dict(o) ==
    [i \in 1..Min(Len(all_labels(o.cls)), Len(all_parameters(o))) |->
        Item(all_labels(o.cls)[i], all_parameters(o)[i])]

\* mutant: the items of d whose value is truthy
RECURSIVE TruthyItems(_)
TruthyItems(d) ==
    IF d = <<>> THEN <<>>
    ELSE (IF Truthy(Head(d).value) THEN <<Head(d)>> ELSE <<>>) \o TruthyItems(Tail(d))

\* the items of d whose value is not None, in order
RECURSIVE NotNoneItems(_)
NotNoneItems(d) ==
    IF d = <<>> THEN <<>>
    ELSE (IF Head(d).value.kind = "none" THEN <<>> ELSE <<Head(d)>>) \o NotNoneItems(Tail(d))

get_dict(o) == NotNoneItems(to_dict(o))

\* mutant: the items are assigned from the last to the first
RECURSIVE SetAll_backwards(_, _, _)
SetAll_backwards(attrs, table, d) ==
    IF d = <<>> THEN attrs
    ELSE SetAll_backwards(SetAttr(attrs, Lookup(table, d[Len(d)].key), d[Len(d)].value),
                          table, SubSeq(d, 1, Len(d) - 1))

\* the loop of populate: setattr for each item, in order
RECURSIVE SetAll(_, _, _)
SetAll(attrs, table, d) ==
    IF d = <<>> THEN attrs
    ELSE SetAll(SetAttr(attrs, Lookup(table, Head(d).key), Head(d).value), table, Tail(d))

\* cls.populate(dictionary)
populate(cls, dictionary) ==
    [cls |-> cls, attrs |-> SetAll(New(cls, NoArgs(cls)).attrs, AttrsTable(cls), dictionary)]

\* mutant: the comparison of every attribute the objects carry
eq_all_attributes(a, b) == a.cls = b.cls /\ a.attrs = b.attrs

\* a == b (_PlotParams.__eq__, with the reflected call Python makes when
\* the first returns NotImplemented; two distinct objects of unrelated
\* classes are unequal)
eq(a, b) ==
    IF IsInstance(b.cls, a.cls) THEN DictEq(to_dict(a), to_dict(b))
    ELSE IF IsInstance(a.cls, b.cls) THEN DictEq(to_dict(b), to_dict(a))
    ELSE FALSE

(***************************************************************************)
(* split_dictionary.  `p1[name], p2[name] = values[:2]` raises TypeError   *)
(* when values cannot be sliced and ValueError when the slice has fewer    *)
(* than two elements; the loop stops at the first item that raises.        *)
(***************************************************************************)
MsgNotSubscriptable == "object is not subscriptable"

MsgNotEnough == "not enough values to unpack (expected 2)"

Splits(v) == Subscriptable(v) /\ Len(Elements(Slice2(v))) = 2

\* the items of the parameters that make the loop raise
Unsplittable(d) == {i \in DOMAIN d : ~Splits(d[i].value)}

\* mutant: both parts take the first element
SplitPart_first(d, part) == [i \in DOMAIN d |-> Item(d[i].key, Elements(Slice2(d[i].value))[1])]

\* params_instance1 (part 1) or params_instance2 (part 2) after the loop
SplitPart(d, part) == [i \in DOMAIN d |-> Item(d[i].key, Elements(Slice2(d[i].value))[part])]

split_dictionary(plot_instance) ==
    LET parameters == get_dict(plot_instance)
        bad == Unsplittable(parameters)
        first == CHOOSE i \in bad : \A j \in bad : i <= j
    IN  IF bad # {}
        THEN IF Subscriptable(parameters[first].value)
             THEN Raises("ValueError", MsgNotEnough)
             ELSE Raises("TypeError", MsgNotSubscriptable)
        ELSE Returns(<<populate(plot_instance.cls, SplitPart(parameters, 1)),
                       populate(plot_instance.cls, SplitPart(parameters, 2))>>)

(***************************************************************************)
(* The style objects a caller builds.                                      *)
(***************************************************************************)
\* constructor arguments that differ from the template they start from
MaxOverrides == 1
\* items of a mapping handed to populate by the caller
MaxDictLen == 1

\* position of an attribute among the parameters of its class
ParamIndex(cls, p) == CHOOSE i \in DOMAIN ParamAttrs(cls) : ParamAttrs(cls)[i] = p

\* every argument left out, every argument a scalar, every argument a pair:
\* the values differ from one parameter to the next
Templates == {"none", "scalar", "pair"}

TemplateValue(t, i) ==
    CASE t = "none" -> NoneV
      [] t = "scalar" -> Num(i)
      [] t = "pair" -> List(<<Num(10 * i + 1), Num(10 * i + 2)>>)

\* further values of an argument: None, a number, the empty string, a
\* two-character string, lists of 1 and 3 elements, a tuple of 2
SampleValues ==
    {NoneV, Num(7), Str(<<>>), Str(<<45, 45>>), List(<<Num(1)>>),
     List(<<Num(1), Num(2), Num(3)>>), Tuple(<<Num(1), Num(2)>>)}

Kwargs(cls) ==
    UNION {
        UNION { { [p \in InitParams(cls) |->
                      IF p \in S THEN ov[p] ELSE TemplateValue(t, ParamIndex(cls, p))]
                  : ov \in [S -> SampleValues] }
                : S \in {T \in SUBSET InitParams(cls) : Cardinality(T) <= MaxOverrides} }
        : t \in Templates }

\* keys a caller may use: the aliases, the attribute names, an unknown key
PopulateKeys(cls) ==
    DOMAIN AttrsTable(cls) \cup {AttrsTable(cls)[k] : k \in DOMAIN AttrsTable(cls)}
    \cup {"zorder"}

PopulateValues == {NoneV, Num(7), List(<<Num(1), Num(2)>>)}

\* mappings of up to MaxDictLen items, under any keys
ShortDicts(cls) ==
    UNION { { [i \in 1..n |-> Item(ks[i], vs[i])] :
                ks \in {f \in [1..n -> PopulateKeys(cls)] :
                           \A i, j \in 1..n : i # j => f[i] # f[j]},
                vs \in [1..n -> PopulateValues] }
            : n \in 0..MaxDictLen }

\* mappings that name every key of the compact mapping, from a template
FullDicts(cls) ==
    UNION {
        UNION { { [i \in DOMAIN all_labels(cls) |->
                      Item(all_labels(cls)[i],
                           IF i \in S THEN ov[i] ELSE TemplateValue(t, i))]
                  : ov \in [S -> PopulateValues] }
                : S \in {T \in SUBSET DOMAIN all_labels(cls) : Cardinality(T) <= MaxOverrides} }
        : t \in Templates }

Dicts(cls) == ShortDicts(cls) \cup FullDicts(cls)

\* cls(**kwargs)
Construct ==
    /\ call = NoCall /\ obj = NoObj
    /\ \E cls \in Classes : \E kw \in Kwargs(cls) :
        /\ call' = [fn |-> "__init__", cls |-> cls, kwargs |-> kw]
        /\ obj' = New(cls, kw)
        /\ ret' = Returns(obj')
    /\ drawn' = drawn

\* cls.populate(dictionary), with a mapping of the caller's
CallPopulate ==
    /\ call = NoCall /\ obj = NoObj
    /\ \E cls \in Classes : \E d \in Dicts(cls) :
        /\ call' = [fn |-> "populate", cls |-> cls, dictionary |-> d, from |-> "caller"]
        /\ obj' = populate(cls, d)
        /\ ret' = Returns(obj')
    /\ drawn' = drawn

\* obj.get_dict()
CallGetDict ==
    /\ call = NoCall /\ obj # NoObj
    /\ call' = [fn |-> "get_dict"]
    /\ ret' = Returns(get_dict(obj))
    /\ obj' = obj
    /\ drawn' = drawn

\* type(obj).populate(obj.get_dict()): the mapping just returned goes back in
CallPopulateBack ==
    /\ call.fn = "get_dict"
    /\ call' = [fn |-> "populate", cls |-> obj.cls, dictionary |-> Get(ret.value),
                from |-> "get_dict"]
    /\ ret' = Returns(populate(obj.cls, Get(ret.value)))
    /\ obj' = obj
    /\ drawn' = drawn

\* split_dictionary(obj)
CallSplit ==
    /\ call = NoCall /\ obj # NoObj
    /\ call' = [fn |-> "split_dictionary"]
    /\ ret' = split_dictionary(obj)
    /\ obj' = obj
    /\ drawn' = drawn

\* the object goes out of scope
Drop ==
    /\ call = NoCall /\ obj # NoObj
    /\ obj' = NoObj
    /\ UNCHANGED <<call, ret>>
    /\ drawn' = drawn

NextStyle ==
    \/ Construct
    \/ CallPopulate
    \/ CallGetDict
    \/ CallPopulateBack
    \/ CallSplit
    \/ Return
    \/ Drop

SpecStyle == InitIdle /\ [][NextStyle]_vars

(***************************************************************************)
(* Claims on the style objects, checked under SpecStyle.                   *)
(***************************************************************************)
\* the fields of the object: the attributes to_dict reads
Fields(o) == Range(ParamAttrs(o.cls))

Absent(o, f) == o.attrs[f].kind = "none"

NoAbsentField(o) == \A f \in Fields(o) : ~Absent(o, f)

RoundTripped == call.fn = "populate" /\ call.from = "get_dict"

\* C8: for every variant and every object s with no absent field,
\* populate(s.get_dict()) == s: populate maps each key get_dict emits back
\* onto the field it came from.
C8_RoundTrip ==
    (RoundTripped /\ NoAbsentField(obj)) =>
        /\ ret.raised = ""
        /\ eq(Get(ret.value), obj)
        /\ \A f \in Fields(obj) : Get(ret.value).attrs[f] = obj.attrs[f]

C8_Witness ==
    /\ RoundTripped /\ NoAbsentField(obj)
    /\ obj.cls = "ErrorPlot"
    /\ obj.attrs["marker_size"] # obj.attrs["marker_edge_width"]
    /\ eq(Get(ret.value), obj)

InSplit == call.fn = "split_dictionary"

SplitClasses == {"LinePlot", "ScatterPlot", "ErrorPlot"}

\* a two-element sequence [a, b]
IsPair(v) == v.kind \in {"list", "tuple"} /\ Len(v.items) = 2

AllPresentArePairs(o) == \A f \in Fields(o) : Absent(o, f) \/ IsPair(o.attrs[f])

C10_SplitRejects ==
    (InSplit /\ obj.cls \in SplitClasses /\ ~AllPresentArePairs(obj)) =>
        ret.raised # ""

(***************************************************************************)
(* __hash__: hash(tuple(items)), items being the (key, value) pairs of     *)
(* to_dict sorted by key, a list value replaced by the tuple of its        *)
(* elements.  A hash is represented by the tuple it is computed from:      *)
(* equal tuples have equal hashes.                                         *)
(***************************************************************************)
\* the labels of all classes, in the order sorted() puts strings in
LabelOrder ==
    <<"alpha", "c", "capsize", "capthick", "cmap", "color", "ecolor", "elinewidth",
      "fc", "figsize", "ls", "lw", "marker", "mec", "mew", "mfc", "ms", "s",
      "sharex", "sharey">>

KeyRank(k) == CHOOSE i \in DOMAIN LabelOrder : LabelOrder[i] = k

\* sorted(d.items()): the keys differ, so no two values are compared
sorted_items(d) ==
    [i \in DOMAIN d |->
        CHOOSE it \in Range(d) :
            Cardinality({o \in Range(d) : KeyRank(o.key) < KeyRank(it.key)}) = i - 1]

\* tuple(value) if isinstance(value, list) else value
as_hashable(v) == IF v.kind = "list" THEN Tuple(v.items) ELSE v

\* mutant: the hash of the items as they are, lists not converted
hash_unconverted(o) == sorted_items(to_dict(o))

\* hash(o)
hash(o) ==
    [i \in DOMAIN to_dict(o) |->
        Item(sorted_items(to_dict(o))[i].key,
             as_hashable(sorted_items(to_dict(o))[i].value))]

(***************************************************************************)
(* Two style objects of one class, compared.  The objects are populated    *)
(* from mappings of up to two items over a few keys: an alias, the         *)
(* attribute it stands for, a second alias and a key that is no field.     *)
(***************************************************************************)
AssignKeys(cls) ==
    {all_labels(cls)[1], AttrsTable(cls)[all_labels(cls)[1]],
     all_labels(cls)[Len(all_labels(cls))], "zorder"}

AssignValues == {Num(7), List(<<Num(1), Num(2)>>), Tuple(<<Num(1), Num(2)>>)}

AssignDicts(cls) ==
    UNION { { [i \in 1..n |-> Item(ks[i], vs[i])] :
                ks \in {f \in [1..n -> AssignKeys(cls)] :
                           \A i, j \in 1..n : i # j => f[i] # f[j]},
                vs \in [1..n -> AssignValues] }
            : n \in {0, 1, 2} }

\* cls.populate(dictionary), with a mapping of up to two items
CallPopulateAssign ==
    /\ call = NoCall /\ obj = NoObj
    /\ \E cls \in Classes : \E d \in AssignDicts(cls) :
        /\ call' = [fn |-> "populate", cls |-> cls, dictionary |-> d, from |-> "caller"]
        /\ obj' = populate(cls, d)
        /\ ret' = Returns(obj')
    /\ drawn' = drawn

\* obj == other, other being an object of the class of obj
CallEq ==
    /\ call = NoCall /\ obj # NoObj
    /\ \E d \in AssignDicts(obj.cls) :
        /\ call' = [fn |-> "__eq__", other |-> populate(obj.cls, d)]
        /\ ret' = Returns(eq(obj, call'.other))
        /\ obj' = obj
    /\ drawn' = drawn

\* hash(obj)
CallHash ==
    /\ call = NoCall /\ obj # NoObj
    /\ call' = [fn |-> "__hash__"]
    /\ ret' = Returns(hash(obj))
    /\ obj' = obj
    /\ drawn' = drawn

NextEquality ==
    \/ CallPopulateAssign
    \/ CallEq
    \/ CallHash
    \/ Return
    \/ Drop

SpecEquality == InitIdle /\ [][NextEquality]_vars

(***************************************************************************)
(* Claims on equality and hashing, checked under SpecEquality.             *)
(***************************************************************************)
InEq == call.fn = "__eq__"

SameFields(a, b) == \A f \in Fields(a) : a.attrs[f] = b.attrs[f]

\* C11: two objects of one class are equal if and only if they hold the
\* same value in every field, whatever the order the fields were assigned
\* in and whatever attribute that is no field they carry; and two equal
\* objects have the same hash.
C11_EqHashAgree ==
    InEq =>
        /\ ret.raised = ""
        /\ Get(ret.value) <=> SameFields(obj, call.other)
        /\ Get(ret.value) => hash(obj) = hash(call.other)

\* equal objects whose attributes differ: only one carries zorder
C11_Witness ==
    /\ InEq /\ Get(ret.value)
    /\ obj.cls = "ErrorPlot"
    /\ "zorder" \in DOMAIN obj.attrs /\ "zorder" \notin DOMAIN call.other.attrs
    /\ obj.attrs["line_style"] = Tuple(<<Num(1), Num(2)>>)
    /\ hash(obj) = hash(call.other)

\* the two objects differ in some field only by one holding a list where
\* the other holds the tuple of the same elements, or not at all
SameFieldsAsTuples(a, b) ==
    \A f \in Fields(a) : as_hashable(a.attrs[f]) = as_hashable(b.attrs[f])

Labels_of(d) == {d[i].key : i \in DOMAIN d}

\* the key of the compact mapping the colour is emitted under
ColourLabel(cls) == IF cls = "ScatterPlot" THEN "c" ELSE "color"

\* C13: every LinePlot, ScatterPlot and ErrorPlot object, constructed with
\* or without a colour or populated from any mapping (one that maps the
\* colour key to None included), holds a colour that is not None, and its
\* get_dict() has the colour key.
C13_ColourAlways ==
    (obj # NoObj /\ obj.cls \in SplitClasses) =>
        /\ ~Absent(obj, "color")
        /\ ColourLabel(obj.cls) \in Labels_of(get_dict(obj))

(***************************************************************************)
(* Claims on populate, checked under SpecEquality, whose mappings name a   *)
(* field by its alias and by its attribute name.                           *)
(***************************************************************************)
PopulatedByCaller == call.fn = "populate" /\ call.from = "caller"

\* the items of the mapping d that name the field f of class cls
Naming(cls, d, f) == {i \in DOMAIN d : Lookup(AttrsTable(cls), d[i].key) = f}

Last(S) == CHOOSE i \in S : \A j \in S : j <= i

KeysOf(d) == [i \in DOMAIN d |-> d[i].key]

\* the positions of d, in order, whose value is not None
Present(d) == {i \in DOMAIN d : d[i].value.kind # "none"}

\* whether sub holds the items of d at the positions in S, in the order of d
Restricts(sub, d, S) ==
    /\ Len(sub) = Cardinality(S)
    /\ \A i \in DOMAIN sub :
          \E j \in S : sub[i] = d[j] /\ Cardinality({k \in S : k < j}) = i - 1

InGetDict == call.fn = "get_dict"

\* C15: to_dict() of every object has the fixed keys of its class, a key
\* whose value is None included: 9 for LinePlot, 6 for ScatterPlot, 3 for
\* SubPlots and, for ErrorPlot, the 9 of LinePlot in their order followed
\* by capsize, elinewidth, ecolor, capthick; get_dict() is to_dict()
\* restricted to the keys whose value is not None.
C15_FixedKeys ==
    /\ obj # NoObj =>
        /\ obj.cls = "LinePlot" =>
              KeysOf(to_dict(obj)) =
                  <<"ls", "lw", "color", "alpha", "marker", "ms", "mec", "mfc", "mew">>
        /\ obj.cls = "ScatterPlot" =>
              KeysOf(to_dict(obj)) = <<"c", "alpha", "marker", "s", "cmap", "fc">>
        /\ obj.cls = "SubPlots" =>
              KeysOf(to_dict(obj)) = <<"sharex", "sharey", "figsize">>
        /\ obj.cls = "ErrorPlot" =>
              /\ Len(to_dict(obj)) = 13
              /\ SubSeq(KeysOf(to_dict(obj)), 1, 9) =
                    KeysOf(to_dict([cls |-> "LinePlot", attrs |-> obj.attrs]))
              /\ SubSeq(KeysOf(to_dict(obj)), 10, 13) =
                    <<"capsize", "elinewidth", "ecolor", "capthick">>
        /\ \A i \in DOMAIN to_dict(obj) :
              to_dict(obj)[i].value = obj.attrs[ParamAttrs(obj.cls)[i]]
    /\ InGetDict =>
        /\ ret.raised = ""
        /\ Restricts(Get(ret.value), to_dict(obj), Present(to_dict(obj)))

\* an ErrorPlot with absent fields and with a present field that is falsy
C15_Witness ==
    /\ InGetDict /\ obj.cls = "ErrorPlot"
    /\ Absent(obj, "capsize")
    /\ obj.attrs["ecolor"] = Str(<<>>)
    /\ Len(Get(ret.value)) < 13
    /\ "ecolor" \in Labels_of(Get(ret.value))
    /\ "capsize" \notin Labels_of(Get(ret.value))

(***************************************************************************)
(* The drawing collaborator (matplotlib).  drawn is the sequence of the    *)
(* calls issued to it by the plotting call in progress: the operation,     *)
(* the axes it is issued on (0: pyplot or the figure, n: the n-th axes     *)
(* created) and its arguments.                                             *)
(***************************************************************************)
Drew(op, ax, args) == [op |-> op, ax |-> ax, args |-> args]

\* d.get(key)
DictGet(d, key) ==
    IF \E i \in DOMAIN d : d[i].key = key
    THEN d[CHOOSE i \in DOMAIN d : d[i].key = key].value
    ELSE NoneV

\* True and False as style values: Python's bool is an int
BoolV(b) == IF b THEN Num(1) ELSE Num(0)

\* axes.scatter if scatter else axes.plot
plot_or_scatter(scatter) == IF scatter THEN "scatter" ELSE "plot"

\* None as a style object
NoStyle == NoObj

plot_dictionary_handler(plot_dictionary) ==
    IF plot_dictionary = NoStyle THEN <<>> ELSE get_dict(plot_dictionary)

\* subplot_dictionary.get_dict() if subplot_dictionary else SubPlots().get_dict()
subplot_kwargs(subplot_dictionary) ==
    IF subplot_dictionary # NoStyle
    THEN get_dict(subplot_dictionary)
    ELSE get_dict(New("SubPlots", NoArgs("SubPlots")))

\* str(label) inside an f-string
Format(label) == IF IsNone(label) THEN "None" ELSE Get(label)

(***************************************************************************)
(* n_plotter: a grid of n_rows x n_cols subplots.                          *)
(***************************************************************************)
MsgModuloZero == "integer modulo by zero"

MsgNumberNoLen == "object of type 'int' has no len()"

MsgListIndex == "list index out of range"

\* value[c % len(value)]
Cycled(value, c) == Elements(value)[(c % Len(Elements(value))) + 1]

\* the items whose value has no len() or has length 0
Uncyclable(plot_items) ==
    {i \in DOMAIN plot_items :
        \/ ~Subscriptable(plot_items[i].value)
        \/ Len(Elements(plot_items[i].value)) = 0}

\* {key: value[c % len(value)] for key, value in plot_items.items()}
main_dict_at(plot_items, c) ==
    [i \in DOMAIN plot_items |-> Item(plot_items[i].key, Cycled(plot_items[i].value, c))]

\* the labels of the auto_label branch, for the subplot of index i
auto_x_label(i) == "X$_" \o ToString(i + 1) \o "$"

auto_y_label(i) == "Y$_" \o ToString(i + 1) \o "$"

auto_data_label(i) == auto_x_label(i) \o " vs " \o auto_y_label(i)

\* mutant: the subplots are numbered from one
auto_subplot_title_from_one(i) == "Subplot " \o ToString(i + 1)

auto_subplot_title(i) == "Subplot " \o ToString(i)

auto_plot_title(n) == ToString(n) \o " Plotter"

\* [None for _ in range(n)]
empty_(n) == [i \in 1..n |-> None]

\* a if a else b, a being an optional list
OrSeq(a, b) == IF ~IsNone(a) /\ Len(Get(a)) > 0 THEN Get(a) ELSE b

\* mutant: the last column instead of the last row
shared_x2_by_rows(n_rows, n_cols) == (n_rows * n_cols) - n_rows

\* len(axs) - int(len(axs) / n_rows if n_rows > n_cols else n_cols)
shared_x2(n_rows, n_cols) ==
    (n_rows * n_cols) - (IF n_rows > n_cols THEN (n_rows * n_cols) \div n_rows ELSE n_cols)

Min4(a, b, c, d) == Min(Min(a, b), Min(c, d))

\* the frame of n_plotter: its arguments and its local variables
NPlotterFrame(args) ==
    [fn |-> "n_plotter", pc |-> "subplots", args |-> args,
     sp_dict |-> <<>>, main_dict |-> <<>>,
     x_labels |-> <<>>, y_labels |-> <<>>, data_labels |-> <<>>,
     subplot_title |-> <<>>, plot_title |-> None, index |-> 0]

(***************************************************************************)
(* The calls of n_plotter a caller makes.                                  *)
(***************************************************************************)
\* rows and columns of the grid
MaxSide == 2

\* the i-th data series of the caller, for the x or the y axis
DataOf(axis, i) == [axis |-> axis, index |-> i]

\* a list of n labels of the caller's
CallerList(prefix, n) == [i \in 1..n |-> Some(prefix \o ToString(i))]

\* the label lists of a call for n subplots: all left out, or all given,
\* one of them possibly one label short
GridLabels(n) ==
    {[x_labels |-> None, y_labels |-> None, data_labels |-> None, subplot_title |-> None]}
    \cup
    {[x_labels |-> Some(CallerList("x", IF short = "x" THEN n - 1 ELSE n)),
      y_labels |-> Some(CallerList("y", IF short = "y" THEN n - 1 ELSE n)),
      data_labels |-> Some(CallerList("d", IF short = "d" THEN n - 1 ELSE n)),
      subplot_title |-> Some(CallerList("t", IF short = "t" THEN n - 1 ELSE n))]
        : short \in {"", "x", "y", "d", "t"}}

\* subplot_dictionary: None, or SubPlots(share_x=..., share_y=...)
GridLayouts ==
    {NoStyle} \cup
    {New("SubPlots", [share_x |-> BoolV(a), share_y |-> BoolV(b), fig_size |-> NoneV])
        : a, b \in BOOLEAN}

\* plot_dictionary: None, LinePlot(), a LinePlot with a list of two colours
\* and a tuple of three widths, LinePlot(color='red'), LinePlot(line_width=2),
\* ScatterPlot(size=[])
GridStyles ==
    {NoStyle,
     New("LinePlot", NoArgs("LinePlot")),
     New("LinePlot", [NoArgs("LinePlot") EXCEPT
                         !["color"] = List(<<Str(<<114>>), Str(<<98>>)>>),
                         !["line_width"] = Tuple(<<Num(1), Num(2), Num(3)>>)]),
     New("LinePlot", [NoArgs("LinePlot") EXCEPT !["color"] = Str(<<114, 101, 100>>)]),
     New("LinePlot", [NoArgs("LinePlot") EXCEPT !["line_width"] = Num(2)]),
     New("ScatterPlot", [NoArgs("ScatterPlot") EXCEPT !["size"] = List(<<>>)])}

CallNPlotter ==
    /\ call = NoCall
    /\ \E n_rows \in 1..MaxSide, n_cols \in 1..MaxSide, auto \in BOOLEAN, scatter \in BOOLEAN,
          sp \in GridLayouts, pd \in GridStyles, title \in {None, Some("Title")} :
        \E ls \in GridLabels(n_rows * n_cols) :
            call' = NPlotterFrame(
                [x_data |-> [i \in 1..(n_rows * n_cols) |-> DataOf("x", i - 1)],
                 y_data |-> [i \in 1..(n_rows * n_cols) |-> DataOf("y", i - 1)],
                 n_rows |-> n_rows, n_cols |-> n_cols,
                 x_labels |-> ls.x_labels, y_labels |-> ls.y_labels,
                 data_labels |-> ls.data_labels, plot_title |-> title,
                 subplot_title |-> ls.subplot_title, auto_label |-> auto,
                 is_scatter |-> scatter, subplot_dictionary |-> sp, plot_dictionary |-> pd])
    /\ ret' = NoRet
    /\ obj' = obj
    /\ drawn' = <<>>

InNPlotter(pc) == call.fn = "n_plotter" /\ call.pc = pc

\* n_rows * n_cols of the call in progress
K == call.args.n_rows * call.args.n_cols

\* lines 517-520: the grid of axes is created
NPlotterSurface ==
    /\ InNPlotter("subplots")
    /\ call' = [call EXCEPT !.pc = "styles",
                            !.sp_dict = subplot_kwargs(call.args.subplot_dictionary)]
    /\ drawn' = Append(drawn,
                       Drew("subplots", 0,
                            [n_rows |-> call.args.n_rows, n_cols |-> call.args.n_cols,
                             kwargs |-> subplot_kwargs(call.args.subplot_dictionary),
                             squeeze |-> FALSE]))
    /\ UNCHANGED <<obj, ret>>

\* lines 522-540: the style mapping of every subplot, then the labels
NPlotterStyles ==
    /\ InNPlotter("styles")
    /\ LET plot_items == plot_dictionary_handler(call.args.plot_dictionary)
           bad == Uncyclable(plot_items)
           first == CHOOSE i \in bad : \A j \in bad : i <= j
           a == call.args
       IN  IF bad # {}
           THEN /\ ret' = IF Subscriptable(plot_items[first].value)
                          THEN Raises("ZeroDivisionError", MsgModuloZero)
                          ELSE Raises("TypeError", MsgNumberNoLen)
                /\ call' = [call EXCEPT !.pc = "done"]
           ELSE /\ ret' = ret
                /\ call' =
                    IF a.auto_label
                    THEN [call EXCEPT
                            !.pc = "loop",
                            !.main_dict = [c \in 1..K |-> main_dict_at(plot_items, c - 1)],
                            !.x_labels = [i \in 1..K |-> Some(auto_x_label(i - 1))],
                            !.y_labels = [i \in 1..K |-> Some(auto_y_label(i - 1))],
                            !.data_labels = [i \in 1..K |-> Some(auto_data_label(i - 1))],
                            !.subplot_title = [i \in 1..K |-> Some(auto_subplot_title(i - 1))],
                            !.plot_title = Some(auto_plot_title(K))]
                    ELSE [call EXCEPT
                            !.pc = "loop",
                            !.main_dict = [c \in 1..K |-> main_dict_at(plot_items, c - 1)],
                            !.x_labels = OrSeq(a.x_labels, empty_(K)),
                            !.y_labels = OrSeq(a.y_labels, empty_(K)),
                            !.data_labels = OrSeq(a.data_labels, empty_(K)),
                            !.subplot_title = OrSeq(a.subplot_title, empty_(K)),
                            !.plot_title = OrStr(a.plot_title, None)]
    /\ UNCHANGED <<obj, drawn>>

\* the number of iterations zip(range(K), axs, x_labels, y_labels,
\* subplot_title) gives: that of its shortest argument
ZipLen == Min4(K, Len(call.x_labels), Len(call.y_labels), Len(call.subplot_title))

\* bool(label), label being an optional string
TruthyLabel(label) == ~IsNone(label) /\ Get(label) # ""

\* lines 549-560: the calls on the axes of index i after the series is drawn
LabelCalls(i, label) ==
    LET x_ == call.x_labels[i + 1]
        y_ == call.y_labels[i + 1]
        sp_ == call.subplot_title[i + 1]
        shared_y == DictGet(call.sp_dict, "sharey")
        shared_x1 == DictGet(call.sp_dict, "sharex")
    IN  (IF Truthy(shared_x1)
         THEN (IF ~(i < shared_x2(call.args.n_rows, call.args.n_cols))
               THEN <<Drew("set_xlabel", i + 1, [label |-> x_])>> ELSE <<>>)
         ELSE <<Drew("set_xlabel", i + 1, [label |-> x_])>>)
        \o (IF ~(Truthy(shared_y) /\ i % call.args.n_cols # 0)
            THEN <<Drew("set_ylabel", i + 1, [label |-> y_])>> ELSE <<>>)
        \o (IF TruthyLabel(label)
            THEN <<Drew("legend", i + 1, [loc |-> "best"])>> ELSE <<>>)
        \o <<Drew("set_title", i + 1, [label |-> sp_]),
             Drew("suptitle", 0, [label |-> call.plot_title])>>

\* lines 546-560: one iteration of the loop over the subplots; data_labels
\* is a list here (lines 530 and 539), so label is data_labels[index]
NPlotterSubplot ==
    /\ InNPlotter("loop")
    /\ call.index < ZipLen
    /\ IF call.index >= Len(call.data_labels)
       THEN /\ ret' = Raises("IndexError", MsgListIndex)
            /\ call' = [call EXCEPT !.pc = "done"]
            /\ drawn' = drawn
       ELSE /\ ret' = ret
            /\ call' = [call EXCEPT !.index = call.index + 1]
            /\ drawn' = drawn
                 \o <<Drew(plot_or_scatter(call.args.is_scatter), call.index + 1,
                           [x |-> call.args.x_data[call.index + 1],
                            y |-> call.args.y_data[call.index + 1],
                            label |-> call.data_labels[call.index + 1],
                            kwargs |-> call.main_dict[call.index + 1]])>>
                 \o LabelCalls(call.index, call.data_labels[call.index + 1])
    /\ obj' = obj

\* lines 562-564: the loop is over
NPlotterFinish ==
    /\ InNPlotter("loop")
    /\ call.index = ZipLen
    /\ call' = [call EXCEPT !.pc = "done"]
    /\ drawn' = Append(drawn, Drew("tight_layout", 0, <<>>))
    /\ ret' = Returns([fig |-> 0, axs |-> [i \in 1..K |-> i]])
    /\ obj' = obj

NextNPlotter ==
    \/ CallNPlotter
    \/ NPlotterSurface
    \/ NPlotterStyles
    \/ NPlotterSubplot
    \/ NPlotterFinish
    \/ Return

SpecNPlotter == InitIdle /\ [][NextNPlotter]_vars

(***************************************************************************)
(* Claims on n_plotter, checked under SpecNPlotter.                        *)
(***************************************************************************)
\* the caller's label lists, where given, have a label for every subplot
GridLabelsSuffice ==
    \/ call.args.auto_label
    \/ \A l \in {call.args.x_labels, call.args.y_labels,
                 call.args.data_labels, call.args.subplot_title} :
          IsNone(l) \/ Len(Get(l)) = 0 \/ Len(Get(l)) >= K

\* the draw-series calls issued on the axes of index i
SeriesDrawn(i) == {n \in DOMAIN drawn : drawn[n].op \in {"plot", "scatter"} /\ drawn[n].ax = i + 1}

\* the present style fields handed to the call: the items of get_dict()
StyleItems == plot_dictionary_handler(call.args.plot_dictionary)

IsSequence(v) == v.kind \in {"list", "tuple"}

\* what the claim gives subplot i for a field that holds value
Distributed(value, i) ==
    IF IsSequence(value) THEN value.items[(i % Len(value.items)) + 1] ELSE value

\* C16: once n_plotter is over, for every present style field and every
\* subplot i in [0, K) the series of subplot i was drawn with
\* value[i mod len(value)] when the field holds a sequence and with the
\* value itself when it holds a scalar (a number or a string).
C16_GridDistribution ==
    (/\ InNPlotter("done") /\ GridLabelsSuffice
     /\ \A n \in DOMAIN StyleItems :
           IsSequence(StyleItems[n].value) => Len(StyleItems[n].value.items) > 0)
    => \A i \in 0..(K - 1) : \A n \in DOMAIN StyleItems :
          \E e \in SeriesDrawn(i) :
              DictGet(drawn[e].args.kwargs, StyleItems[n].key) =
                  Distributed(StyleItems[n].value, i)

\* the calls of operation op issued on the axes of index i
IssuedOn(op, i) == {n \in DOMAIN drawn : drawn[n].op = op /\ drawn[n].ax = i + 1}

\* the calls of operation op issued on the figure
IssuedOnFigure(op) == {n \in DOMAIN drawn : drawn[n].op = op /\ drawn[n].ax = 0}

Completed == InNPlotter("done") /\ ret.raised = ""

\* C17: when n_plotter completes with auto_label true, every subplot of
\* index i in [0, K) has its series drawn under the data label
\* 'X$_{i+1}$ vs Y$_{i+1}$' and is given the title 'Subplot i'; every
\* x-label it is given is 'X$_{i+1}$' and every y-label 'Y$_{i+1}$'; the
\* figure title is 'K Plotter'; whatever labels the caller supplied.
C17_AutoLabels ==
    (Completed /\ call.args.auto_label) =>
        /\ \A i \in 0..(K - 1) :
            /\ SeriesDrawn(i) # {}
            /\ \A n \in SeriesDrawn(i) :
                  drawn[n].args.label =
                      Some("X$_" \o ToString(i + 1) \o "$ vs Y$_" \o ToString(i + 1) \o "$")
            /\ \A n \in IssuedOn("set_xlabel", i) :
                  drawn[n].args.label = Some("X$_" \o ToString(i + 1) \o "$")
            /\ \A n \in IssuedOn("set_ylabel", i) :
                  drawn[n].args.label = Some("Y$_" \o ToString(i + 1) \o "$")
            /\ IssuedOn("set_title", i) # {}
            /\ \A n \in IssuedOn("set_title", i) :
                  drawn[n].args.label = Some("Subplot " \o ToString(i))
        /\ IssuedOnFigure("suptitle") # {}
        /\ \A n \in IssuedOnFigure("suptitle") :
              drawn[n].args.label = Some(ToString(K) \o " Plotter")

\* a 2 x 2 grid whose caller gave labels and a title of its own
C17_Witness ==
    /\ Completed /\ call.args.auto_label
    /\ K = 4
    /\ call.args.x_labels = Some(<<Some("x1"), Some("x2"), Some("x3")>>)
    /\ call.args.plot_title = Some("Title")
    /\ \E n \in IssuedOn("set_xlabel", 3) : drawn[n].args.label = Some("X$_4$")
    /\ \E n \in IssuedOn("set_title", 3) : drawn[n].args.label = Some("Subplot 3")
    /\ \E n \in SeriesDrawn(0) : drawn[n].args.label = Some("X$_1$ vs Y$_1$")
    /\ \E n \in IssuedOnFigure("suptitle") : drawn[n].args.label = Some("4 Plotter")

\* the layout of the call declares the axis shared
Shares(attr) ==
    /\ call.args.subplot_dictionary # NoStyle
    /\ call.args.subplot_dictionary.attrs[attr] = BoolV(TRUE)

\* C18: when n_plotter completes having visited every subplot, subplot i
\* is given a y-label if and only if the layout does not share the Y axis
\* or i is the first of its row (i mod n_cols = 0), and an x-label if and
\* only if the layout does not share the X axis or i lies in the last row
\* (i >= K - n_cols).
C18_SharedAxes ==
    (Completed /\ GridLabelsSuffice) =>
        \A i \in 0..(K - 1) :
            /\ IssuedOn("set_ylabel", i) # {} <=>
                  (~Shares("share_y") \/ i % call.args.n_cols = 0)
            /\ IssuedOn("set_xlabel", i) # {} <=>
                  (~Shares("share_x") \/ i >= K - call.args.n_cols)

\* two rows of one column, both axes shared: only the lower subplot has an
\* x-label, both have a y-label
C18_Witness ==
    /\ Completed /\ GridLabelsSuffice
    /\ call.args.n_rows = 2 /\ call.args.n_cols = 1
    /\ Shares("share_x") /\ Shares("share_y")
    /\ IssuedOn("set_xlabel", 0) = {} /\ IssuedOn("set_xlabel", 1) # {}
    /\ IssuedOn("set_ylabel", 0) # {} /\ IssuedOn("set_ylabel", 1) # {}

(***************************************************************************)
(* plot_with_dual_axes: a primary series and, on a twin axes, an optional  *)
(* secondary one.  Axes are numbered in the order the call creates them;   *)
(* the axes handed in by the caller is CallerAxes.                         *)
(***************************************************************************)
CallerAxes == -1

\* no axes: None
NoAxes == 0

MsgIndex(v) ==
    CASE v.kind = "str" -> "string index out of range"
      [] v.kind = "tuple" -> "tuple index out of range"
      [] OTHER -> MsgListIndex

\* value[0] if isinstance(value, list) else value
dict1_value(value) == IF value.kind = "list" THEN Elements(value)[1] ELSE value

\* the items for which dict1 raises: an empty list
NoFirst(plot_items) ==
    {i \in DOMAIN plot_items :
        plot_items[i].value.kind = "list" /\ Len(Elements(plot_items[i].value)) = 0}

dict1(plot_items) ==
    [i \in DOMAIN plot_items |-> Item(plot_items[i].key, dict1_value(plot_items[i].value))]

\* value[1] if len(value) > 1 else value[0]
dict2_value(value) ==
    IF Len(Elements(value)) > 1 THEN Elements(value)[2] ELSE Elements(value)[1]

\* the items for which dict2 raises: no len(), or nothing at index 0
NoSecond(plot_items) == Uncyclable(plot_items)

dict2(plot_items) ==
    [i \in DOMAIN plot_items |-> Item(plot_items[i].key, dict2_value(plot_items[i].value))]

\* what the comprehension of dict2 raises
dict2_raises(plot_items) ==
    LET first == CHOOSE i \in NoSecond(plot_items) : \A j \in NoSecond(plot_items) : i <= j
    IN  IF Subscriptable(plot_items[first].value)
        THEN Raises("IndexError", MsgIndex(plot_items[first].value))
        ELSE Raises("TypeError", MsgNumberNoLen)

\* mutant: the request is validated before its labels are resolved
DualOrder_validation_first ==
    <<"validate", "labels", "surface", "primary", "secondary", "legend", "done">>

\* the statements of plot_with_dual_axes, in the order of the code
DualOrder ==
    <<"labels", "validate", "surface", "primary", "secondary", "legend", "done">>

\* the statement that follows pc
After(pc) == DualOrder[(CHOOSE i \in DOMAIN DualOrder : DualOrder[i] = pc) + 1]

\* the frame of plot_with_dual_axes: its arguments, the labels its
\* parameters are bound to at present, the axis labels handed to the
\* validation (None before it is called) and the two axes
DualFrame(args) ==
    [fn |-> "plot_with_dual_axes", pc |-> DualOrder[1], args |-> args,
     bound |-> Labels(args.x1y1_label, args.x1y2_label, args.x2y1_label,
                      args.plot_title, args.axis_labels),
     resolved |-> FALSE, checked |-> None, ax1 |-> NoAxes, ax2 |-> NoAxes]

(***************************************************************************)
(* The calls of plot_with_dual_axes a caller makes.                        *)
(***************************************************************************)
\* the primary series: both with points, or one of them empty
DualPrimaryData ==
    {[x1 |-> Series(1), y1 |-> Series(1)], [x1 |-> Series(0), y1 |-> Series(1)],
     [x1 |-> Series(1), y1 |-> Series(0)]}

DualSecondaryData == {None, Some(Series(1))}

\* the labels of the three series: none, one of them, or an empty one
DualSeriesLabels ==
    {<<None, None, None>>, <<Some("Custom1"), None, None>>, <<None, Some("Custom2"), None>>,
     <<None, None, Some("Custom3")>>, <<Some(""), None, None>>}

\* is_scatter and plot_dictionary: line plots with no style object,
\* LinePlot(), a LinePlot with a list of two colours and a tuple of two
\* widths, LinePlot(color='red'), LinePlot(line_width=2),
\* LinePlot(marker=['o'], line_style=[]); scatter plots with no style object
\* and ScatterPlot(size=[5])
DualStyles ==
    {[is_scatter |-> FALSE, plot_dictionary |-> pd] :
        pd \in {NoStyle,
                New("LinePlot", NoArgs("LinePlot")),
                New("LinePlot", [NoArgs("LinePlot") EXCEPT
                                    !["color"] = List(<<Str(<<114>>), Str(<<98>>)>>),
                                    !["line_width"] = Tuple(<<Num(1), Num(2)>>)]),
                New("LinePlot", [NoArgs("LinePlot") EXCEPT
                                    !["color"] = Str(<<114, 101, 100>>)]),
                New("LinePlot", [NoArgs("LinePlot") EXCEPT !["line_width"] = Num(2)]),
                New("LinePlot", [NoArgs("LinePlot") EXCEPT
                                    !["marker"] = List(<<Str(<<111>>)>>),
                                    !["line_style"] = List(<<>>)])}}
    \cup
    {[is_scatter |-> TRUE, plot_dictionary |-> pd] :
        pd \in {NoStyle,
                New("ScatterPlot", [NoArgs("ScatterPlot") EXCEPT
                                       !["size"] = List(<<Num(5)>>)])}}

CallDualAxes ==
    /\ call = NoCall
    /\ \E d1 \in DualPrimaryData, x2 \in DualSecondaryData, y2 \in DualSecondaryData,
          ls \in DualSeriesLabels, tw \in BOOLEAN, auto \in BOOLEAN, al \in OptAxisLabels,
          title \in {None, Some("Custom Title")}, st \in DualStyles,
          axis \in {NoAxes, CallerAxes} :
        call' = DualFrame(
            [x1_data |-> d1.x1, y1_data |-> d1.y1, x2_data |-> x2, y2_data |-> y2,
             x1y1_label |-> ls[1], x1y2_label |-> ls[2], x2y1_label |-> ls[3],
             use_twin_x |-> tw, auto_label |-> auto, axis_labels |-> al,
             plot_title |-> title, is_scatter |-> st.is_scatter,
             plot_dictionary |-> st.plot_dictionary, subplot_dictionary |-> NoStyle,
             axis |-> axis])
    /\ ret' = NoRet
    /\ obj' = obj
    /\ drawn' = <<>>

InDual(pc) == call.fn = "plot_with_dual_axes" /\ call.pc = pc

\* lines 340-350: the labels are resolved and the parameters rebound
DualLabels ==
    /\ InDual("labels")
    /\ call' = [call EXCEPT
                  !.pc = After("labels"),
                  !.resolved = TRUE,
                  !.bound = dual_axes_label_management(
                                call.bound.x1y1_label, call.bound.x1y2_label,
                                call.bound.x2y1_label, call.args.auto_label,
                                call.bound.axis_labels, call.bound.plot_title,
                                call.args.use_twin_x)]
    /\ UNCHANGED <<obj, ret, drawn>>

\* lines 352-359: the request is validated, with the axis labels the
\* parameter is bound to
DualValidate ==
    /\ InDual("validate")
    /\ LET r == dual_axes_data_validation(call.args.x1_data, call.args.x2_data,
                                          call.args.y1_data, call.args.y2_data,
                                          call.args.use_twin_x, call.bound.axis_labels)
       IN  IF r.raised # ""
           THEN /\ ret' = r
                /\ call' = [call EXCEPT !.pc = "done", !.checked = Some(call.bound.axis_labels)]
           ELSE /\ ret' = ret
                /\ call' = [call EXCEPT !.pc = After("validate"),
                                        !.checked = Some(call.bound.axis_labels)]
    /\ UNCHANGED <<obj, drawn>>

\* mutant: a new figure is created whether or not the caller passed axes
DualSurface_always_new ==
    /\ InDual("surface")
    /\ call' = [call EXCEPT !.pc = After("surface"), !.ax1 = 1]
    /\ drawn' = Append(drawn,
                       Drew("subplots", 0,
                            [n_rows |-> 1, n_cols |-> 1,
                             kwargs |-> subplot_kwargs(call.args.subplot_dictionary)]))
    /\ UNCHANGED <<obj, ret>>

\* lines 361-365: the caller's axes, or a new figure with one axes
DualSurface ==
    /\ InDual("surface")
    /\ IF call.args.axis # NoAxes
       THEN /\ call' = [call EXCEPT !.pc = After("surface"), !.ax1 = call.args.axis]
            /\ drawn' = drawn
       ELSE /\ call' = [call EXCEPT !.pc = After("surface"), !.ax1 = 1]
            /\ drawn' = Append(drawn,
                               Drew("subplots", 0,
                                    [n_rows |-> 1, n_cols |-> 1,
                                     kwargs |-> subplot_kwargs(call.args.subplot_dictionary)]))
    /\ UNCHANGED <<obj, ret>>

\* lines 367-375: the primary series, its axis labels and the title
DualPrimary ==
    /\ InDual("primary")
    /\ LET plot_items == plot_dictionary_handler(call.args.plot_dictionary)
           axis_labels == Get(call.bound.axis_labels)
       IN  IF NoFirst(plot_items) # {}
           THEN /\ ret' = Raises("IndexError", MsgListIndex)
                /\ call' = [call EXCEPT !.pc = "done"]
                /\ drawn' = drawn
           ELSE /\ ret' = ret
                /\ call' = [call EXCEPT !.pc = After("primary")]
                /\ drawn' = drawn
                     \o <<Drew(plot_or_scatter(call.args.is_scatter), call.ax1,
                               [x |-> "x1_data", y |-> "y1_data",
                                label |-> call.bound.x1y1_label,
                                kwargs |-> dict1(plot_items)]),
                          Drew("set_xlabel", call.ax1, [label |-> Some(axis_labels[1])]),
                          Drew("set_ylabel", call.ax1, [label |-> Some(axis_labels[2])])>>
                     \o (IF TruthyLabel(call.bound.plot_title)
                         THEN <<Drew("set_title", call.ax1, [label |-> call.bound.plot_title])>>
                         ELSE <<>>)
    /\ obj' = obj

\* the number of the axes twinx() or twiny() creates
TwinAxes == IF call.ax1 = CallerAxes THEN 1 ELSE 2

\* lines 380-382 and 386-388: the secondary series on the twin axes
SecondaryCalls(x, y, label, axis_call) ==
    <<Drew(plot_or_scatter(call.args.is_scatter), TwinAxes,
           [x |-> x, y |-> y, label |-> label,
            kwargs |-> dict2(plot_dictionary_handler(call.args.plot_dictionary))]),
      Drew(axis_call, TwinAxes, [label |-> Some(Get(call.bound.axis_labels)[3])])>>

\* lines 377-388: the twin axes and the secondary series
DualSecondary ==
    /\ InDual("secondary")
    /\ LET plot_items == plot_dictionary_handler(call.args.plot_dictionary)
           twin == IF call.args.use_twin_x THEN "twinx" ELSE "twiny"
           data == IF call.args.use_twin_x THEN call.args.y2_data ELSE call.args.x2_data
       IN  IF ~call.args.use_twin_x /\ IsNone(call.args.x2_data)
           THEN /\ call' = [call EXCEPT !.pc = After("secondary")]
                /\ UNCHANGED <<ret, drawn>>
           ELSE IF IsNone(data)
           THEN /\ call' = [call EXCEPT !.pc = After("secondary"), !.ax2 = TwinAxes]
                /\ drawn' = Append(drawn, Drew(twin, call.ax1, <<>>))
                /\ ret' = ret
           ELSE IF NoSecond(plot_items) # {}
           THEN /\ call' = [call EXCEPT !.pc = "done", !.ax2 = TwinAxes]
                /\ drawn' = Append(drawn, Drew(twin, call.ax1, <<>>))
                /\ ret' = dict2_raises(plot_items)
           ELSE /\ call' = [call EXCEPT !.pc = After("secondary"), !.ax2 = TwinAxes]
                /\ drawn' = Append(drawn, Drew(twin, call.ax1, <<>>))
                     \o (IF call.args.use_twin_x
                         THEN SecondaryCalls("x1_data", "y2_data",
                                             call.bound.x1y2_label, "set_ylabel")
                         ELSE SecondaryCalls("x2_data", "y1_data",
                                             call.bound.x2y1_label, "set_xlabel"))
                /\ ret' = ret
    /\ obj' = obj

\* mutant: the legend is drawn for the label of the primary series only
DualLegend_primary_only ==
    /\ InDual("legend")
    /\ call' = [call EXCEPT !.pc = After("legend")]
    /\ drawn' = drawn
         \o (IF TruthyLabel(call.bound.x1y1_label)
             THEN <<Drew("legend", call.ax1,
                         [handles |-> IF call.ax2 # NoAxes THEN <<call.ax1, call.ax2>>
                                                           ELSE <<call.ax1>>,
                          loc |-> "best"])>>
             ELSE <<>>)
         \o <<Drew("tight_layout", 0, <<>>)>>
    /\ ret' = Returns(IF call.ax2 # NoAxes
                      THEN [pair |-> TRUE, axes |-> <<call.ax1, call.ax2>>]
                      ELSE [pair |-> FALSE, axes |-> <<call.ax1>>])
    /\ obj' = obj

\* lines 390-400: the legend, the layout and the axes returned
DualLegend ==
    /\ InDual("legend")
    /\ call' = [call EXCEPT !.pc = After("legend")]
    /\ drawn' = drawn
         \o (IF \/ TruthyLabel(call.bound.x1y1_label)
                \/ TruthyLabel(call.bound.x1y2_label)
                \/ TruthyLabel(call.bound.x2y1_label)
             THEN <<Drew("legend", call.ax1,
                         [handles |-> IF call.ax2 # NoAxes THEN <<call.ax1, call.ax2>>
                                                           ELSE <<call.ax1>>,
                          loc |-> "best"])>>
             ELSE <<>>)
         \o <<Drew("tight_layout", 0, <<>>)>>
    /\ ret' = Returns(IF call.ax2 # NoAxes
                      THEN [pair |-> TRUE, axes |-> <<call.ax1, call.ax2>>]
                      ELSE [pair |-> FALSE, axes |-> <<call.ax1>>])
    /\ obj' = obj

NextDualAxes ==
    \/ CallDualAxes
    \/ DualLabels
    \/ DualValidate
    \/ DualSurface
    \/ DualPrimary
    \/ DualSecondary
    \/ DualLegend
    \/ Return

SpecDualAxes == InitIdle /\ [][NextDualAxes]_vars

(***************************************************************************)
(* Claims on plot_with_dual_axes, checked under SpecDualAxes.  The drawing *)
(* collaborator never fails in the model: every failure is the call's own. *)
(***************************************************************************)
InDualAxes == call.fn = "plot_with_dual_axes"

\* the calls that create a surface or a twin axes, or draw a series
SurfaceOrSeries == {"subplots", "twinx", "twiny", "plot", "scatter"}

\* C19: when plot_with_dual_axes fails, in the validation of the request
\* or in the distribution of the style values to the two series, no call
\* that creates a surface or a twin axes or draws a series was issued.
C19_NoPartialSuccess ==
    (InDual("done") /\ ret.raised # "") =>
        \A n \in DOMAIN drawn : drawn[n].op \notin SurfaceOrSeries

ValidationCalled == ~IsNone(call.checked)

\* the validation was called and did not raise
ValidationPassed ==
    /\ ValidationCalled
    /\ dual_axes_data_validation(call.args.x1_data, call.args.x2_data, call.args.y1_data,
                                 call.args.y2_data, call.args.use_twin_x,
                                 Get(call.checked)).raised = ""

\* C20: in plot_with_dual_axes the validation is called before the labels
\* are resolved: the labels are resolved only once the validation has
\* passed, and the axis labels validated are the caller's own.
C20_ValidateBeforeResolve ==
    InDualAxes =>
        /\ call.resolved => ValidationPassed
        /\ ValidationCalled => Get(call.checked) = call.args.axis_labels

\* the axis labels the resolution gives: the caller's when it gave a list
\* that is not empty, else the defaults of the mode with auto_label and
\* three empty strings without
ResolvedAxisLabels ==
    IF ~IsNone(call.args.axis_labels) /\ Get(call.args.axis_labels) # <<>>
    THEN call.args.axis_labels
    ELSE IF ~call.args.auto_label THEN Some(<<"", "", "">>)
    ELSE IF call.args.use_twin_x THEN Some(<<"X", "Y1", "Y2">>)
    ELSE Some(<<"X1", "Y", "X2">>)

\* C20 as amended: in plot_with_dual_axes the labels are resolved before
\* the validation is called: the axis labels validated are the resolved
\* ones, the validation leaves the resolved labels as they are, and no
\* call is issued to the drawing collaborator before it has passed.
C20_ResolveBeforeValidate ==
    InDualAxes =>
        /\ ValidationCalled =>
              /\ call.resolved
              /\ Get(call.checked) = ResolvedAxisLabels
              /\ call.bound.axis_labels = ResolvedAxisLabels
        /\ ~ValidationPassed => drawn = <<>>

\* no axis labels given, auto_label: the defaults of the dual-Y mode have
\* been validated and the surface is about to be created
C20_Witness ==
    /\ InDual("surface")
    /\ IsNone(call.args.axis_labels) /\ call.args.auto_label /\ call.args.use_twin_x
    /\ call.checked = Some(Some(<<"X", "Y1", "Y2">>))
    /\ ret.raised = ""

(***************************************************************************)
(* The wrappers of plot_with_dual_axes: plot_xy, plot_xyy and              *)
(* plot_two_column_file.  Each builds the arguments of one call of         *)
(* plot_with_dual_axes and returns what that call returns, so the frame a  *)
(* wrapper leaves is the frame of plot_with_dual_axes, with the wrapper's  *)
(* name in it.                                                             *)
(***************************************************************************)
\* Python's None as an element of a list of labels: the elements of a list
\* are strings in the model, and no caller's label is this one
NoneLabel == "<None>"

\* a label as an element of a list
AsElement(label) == IF IsNone(label) THEN NoneLabel ELSE Get(label)

\* the list [a, b, c] of three labels
ListOf3(a, b, c) == Some(<<AsElement(a), AsElement(b), AsElement(c)>>)

WrapperFrame(caller, args) ==
    [fn |-> "plot_with_dual_axes", caller |-> caller, pc |-> DualOrder[1], args |-> args,
     bound |-> Labels(args.x1y1_label, args.x1y2_label, args.x2y1_label,
                      args.plot_title, args.axis_labels),
     resolved |-> FALSE, checked |-> None, ax1 |-> NoAxes, ax2 |-> NoAxes]

\* the frame of a wrapper that raised before it called plot_with_dual_axes
RaisedFrame(caller, shape) == [fn |-> caller, caller |-> caller, pc |-> "done", shape |-> shape]

\* a label a wrapper's caller passes or leaves out
WrapperLabel(custom) == {None, Some(custom)}

\* the styles the wrappers are called with
WrapperStyles ==
    {[is_scatter |-> FALSE, plot_dictionary |-> NoStyle],
     [is_scatter |-> TRUE, plot_dictionary |-> NoStyle],
     [is_scatter |-> FALSE,
      plot_dictionary |-> New("LinePlot", [NoArgs("LinePlot") EXCEPT
                                              !["color"] = List(<<Str(<<114>>), Str(<<98>>)>>)])]}

\* lines 193-197: the labels of plot_xy when auto_label is true
plot_xy_auto == [x_label |-> Some("X"), y_label |-> Some("Y"),
                 plot_title |-> Some("Plot"), data_label |-> Some("X vs Y")]

\* lines 193-211 of plot_xy: the arguments handed to plot_with_dual_axes
plot_xy(x_data, y_data, x_label, y_label, plot_title, data_label, auto_label, style, axis) ==
    LET l == IF auto_label THEN plot_xy_auto
             ELSE [x_label |-> x_label, y_label |-> y_label,
                   plot_title |-> plot_title, data_label |-> data_label]
    IN  [x1_data |-> x_data, y1_data |-> y_data, x2_data |-> None, y2_data |-> None,
         x1y1_label |-> l.data_label, x1y2_label |-> None, x2y1_label |-> None,
         use_twin_x |-> FALSE, auto_label |-> auto_label,
         axis_labels |-> ListOf3(l.x_label, l.y_label, None),
         plot_title |-> l.plot_title, is_scatter |-> style.is_scatter,
         plot_dictionary |-> style.plot_dictionary, subplot_dictionary |-> NoStyle,
         axis |-> axis]

CallPlotXY ==
    /\ call = NoCall
    /\ \E d \in DualPrimaryData, xl \in WrapperLabel("Xlabel"), yl \in WrapperLabel("Ylabel1"),
          title \in WrapperLabel("Custom Title"), dl \in WrapperLabel("Custom1"),
          auto \in BOOLEAN, st \in WrapperStyles, axis \in {NoAxes, CallerAxes} :
        call' = WrapperFrame("plot_xy", plot_xy(d.x1, d.y1, xl, yl, title, dl, auto, st, axis))
    /\ ret' = NoRet
    /\ obj' = obj
    /\ drawn' = <<>>

\* lines 263-268: the labels of plot_xyy when auto_label is true
plot_xyy_auto == [x_label |-> Some("X"), y1_label |-> Some("Y$_1$"), y2_label |-> Some("Y$_2$"),
                  plot_title |-> Some("XYY plot"),
                  data_labels |-> <<Some("X vs Y$_1$"), Some("X vs Y$_2$")>>]

\* lines 263-284 of plot_xyy: the arguments handed to plot_with_dual_axes
plot_xyy(x_data, y1_data, y2_data, x_label, y1_label, y2_label, plot_title, data_labels, use_twin_x, auto_label, style, axis) ==
    LET l == IF auto_label THEN plot_xyy_auto
             ELSE [x_label |-> x_label, y1_label |-> y1_label, y2_label |-> y2_label,
                   plot_title |-> plot_title, data_labels |-> data_labels]
    IN  [x1_data |-> x_data, y1_data |-> y1_data, x2_data |-> None, y2_data |-> Some(y2_data),
         x1y1_label |-> l.data_labels[1], x1y2_label |-> l.data_labels[2], x2y1_label |-> None,
         use_twin_x |-> use_twin_x, auto_label |-> auto_label,
         axis_labels |-> ListOf3(l.x_label, l.y1_label, l.y2_label),
         plot_title |-> l.plot_title, is_scatter |-> style.is_scatter,
         plot_dictionary |-> style.plot_dictionary, subplot_dictionary |-> NoStyle,
         axis |-> axis]

\* the labels of the two series of plot_xyy: the default (None, None), or two labels
XYYDataLabels == {<<None, None>>, <<Some("Custom1"), Some("Custom2")>>}

CallPlotXYY ==
    /\ call = NoCall
    /\ \E d \in DualPrimaryData, y2 \in {Series(1), Series(0)},
          xl \in WrapperLabel("Xlabel"), yl \in WrapperLabel("Ylabel1"),
          y2l \in WrapperLabel("Ylabel2"), title \in WrapperLabel("Custom Title"),
          dls \in XYYDataLabels, tw \in BOOLEAN, auto \in BOOLEAN,
          st \in WrapperStyles, axis \in {NoAxes, CallerAxes} :
        call' = WrapperFrame("plot_xyy",
                             plot_xyy(d.x1, d.y1, y2, xl, yl, y2l, title, dls, tw, auto,
                                      st, axis))
    /\ ret' = NoRet
    /\ obj' = obj
    /\ drawn' = <<>>

\* line 131: what numpy's genfromtxt returns for a file is the caller's
\* choice of file: a one-dimensional array (a file of one row or of one
\* column), or a table of rows of equal width
MaxWidth == 3

Table(rows, width) ==
    [shape |-> <<rows, width>>,
     cells |-> [r \in 1..rows |-> [c \in 1..width |-> 10 * r + c]]]

\* data.T[c], with c counted from 0
Column(data, c) == [r \in 1..data.shape[1] |-> data.cells[r][c + 1]]

MsgTupleIndex == "tuple index out of range"
MsgTwoColumns == "The file must contain exactly two columns of data."

\* lines 133-149 of plot_two_column_file, for a table: the arguments
\* handed to plot_with_dual_axes
plot_two_column_file(data, x_label, y_label, data_label, plot_title, auto_label, style, axis) ==
    [x1_data |-> Column(data, 0), y1_data |-> Column(data, 1),
     x2_data |-> None, y2_data |-> None,
     x1y1_label |-> data_label, x1y2_label |-> None, x2y1_label |-> None,
     use_twin_x |-> FALSE, auto_label |-> auto_label,
     axis_labels |-> ListOf3(x_label, y_label, None),
     plot_title |-> plot_title, is_scatter |-> style.is_scatter,
     plot_dictionary |-> style.plot_dictionary, subplot_dictionary |-> NoStyle,
     axis |-> axis]

\* the shapes of the arrays genfromtxt returns: (n,) or (rows, width)
ParsedShapes ==
    {<<n>> : n \in 0..MaxWidth} \cup {<<rows, width>> : rows \in 2..(MaxLen + 1), width \in 1..MaxWidth}

\* lines 131-149: shape[1] does not exist for a one-dimensional array
CallPlotTwoColumnFile ==
    /\ call = NoCall
    /\ \E shape \in ParsedShapes,
          xl \in WrapperLabel("Xlabel"), yl \in WrapperLabel("Ylabel1"),
          title \in WrapperLabel("Custom Title"), dl \in WrapperLabel("Custom1"),
          auto \in BOOLEAN, st \in WrapperStyles, axis \in {NoAxes, CallerAxes} :
        IF Len(shape) < 2
        THEN /\ call' = RaisedFrame("plot_two_column_file", shape)
             /\ ret' = Raises("IndexError", MsgTupleIndex)
        ELSE IF shape[2] # 2
        THEN /\ call' = RaisedFrame("plot_two_column_file", shape)
             /\ ret' = Raises("ValueError", MsgTwoColumns)
        ELSE /\ call' = WrapperFrame("plot_two_column_file",
                                     plot_two_column_file(Table(shape[1], shape[2]), xl, yl,
                                                          dl, title, auto, st, axis))
             /\ ret' = NoRet
    /\ obj' = obj
    /\ drawn' = <<>>

NextWrappers ==
    \/ CallDualAxes
    \/ CallPlotXY
    \/ CallPlotXYY
    \/ CallPlotTwoColumnFile
    \/ DualLabels
    \/ DualValidate
    \/ DualSurface
    \/ DualPrimary
    \/ DualSecondary
    \/ DualLegend
    \/ Return

SpecWrappers == InitIdle /\ [][NextWrappers]_vars

(***************************************************************************)
(* Claims on the wrappers, checked under SpecWrappers.                     *)
(***************************************************************************)
\* the call in progress was made through the wrapper w
Via(w) == "caller" \in DOMAIN call /\ call.caller = w

\* the names of the calls logged so far
Issued(op) == {n \in DOMAIN drawn : drawn[n].op = op}

\* C21: plot_xyy honours use_twin_x in both modes.  For non-empty x_data,
\* y1_data and y2_data the finished call has not raised, and it has created
\* the twin axes of its mode (twinx for use_twin_x true, twiny for false)
\* and drawn the second series on them.
C21_BothModes ==
    (/\ Via("plot_xyy") /\ InDual("done")
     /\ Len(call.args.x1_data) > 0 /\ Len(call.args.y1_data) > 0
     /\ Len(Get(call.args.y2_data)) > 0)
    => /\ ret.raised = ""
       /\ Issued(IF call.args.use_twin_x THEN "twinx" ELSE "twiny") # {}
       /\ \E n \in Issued(plot_or_scatter(call.args.is_scatter)) : drawn[n].ax = call.ax2

\* the call of plot_two_column_file raised before plot_with_dual_axes was called
FileRejected == Via("plot_two_column_file") /\ call.fn = "plot_two_column_file"

ColumnCountError == ret.raised = "ValueError" /\ ret.msg = MsgTwoColumns

\* C22: plot_two_column_file fails with the column-count error exactly
\* when the parsed data is not a table of width 2 (a one-dimensional array
\* included), before any label is resolved, anything is validated or drawn;
\* for width 2 the primary series are columns 0 and 1 of the table.
C22_ColumnCount ==
    Via("plot_two_column_file") =>
        IF FileRejected
        THEN /\ call.shape \in ParsedShapes
             /\ (Len(call.shape) < 2 \/ call.shape[2] # 2)
             /\ ColumnCountError
             /\ drawn = <<>>
        ELSE /\ ~ColumnCountError
             /\ \E rows \in 2..(MaxLen + 1) :
                  /\ call.args.x1_data = Column(Table(rows, 2), 0)
                  /\ call.args.y1_data = Column(Table(rows, 2), 1)

(***************************************************************************)
(* two_subplots: the orientation chooses the grid, and n_plotter does the  *)
(* rest.                                                                   *)
(***************************************************************************)
MsgOrientation == "The orientation must be either 'h' or 'v'."

\* mutant: the two orientations exchanged
two_subplots_grid_exchanged(orientation) ==
    IF orientation = "h" THEN Some([n_rows |-> 2, n_cols |-> 1])
    ELSE IF orientation = "v" THEN Some([n_rows |-> 1, n_cols |-> 2])
    ELSE None

\* lines 446-451: n_rows and n_cols, or None where the code raises
two_subplots_grid(orientation) ==
    IF orientation = "h" THEN Some([n_rows |-> 1, n_cols |-> 2])
    ELSE IF orientation = "v" THEN Some([n_rows |-> 2, n_cols |-> 1])
    ELSE None

\* the orientations callers pass: the two of the code, their capitals,
\* full words and the empty string
Orientations == {"h", "v", "H", "V", "horizontal", ""}

\* the frame of n_plotter when two_subplots called it
TwoSubplotsFrame(orientation, args) ==
    [fn |-> "n_plotter", caller |-> "two_subplots", orientation |-> orientation,
     pc |-> "subplots", args |-> args,
     sp_dict |-> <<>>, main_dict |-> <<>>,
     x_labels |-> <<>>, y_labels |-> <<>>, data_labels |-> <<>>,
     subplot_title |-> <<>>, plot_title |-> None, index |-> 0]

CallTwoSubplots ==
    /\ call = NoCall
    /\ \E orientation \in Orientations, auto \in BOOLEAN, scatter \in BOOLEAN,
          sp \in GridLayouts, pd \in GridStyles, title \in {None, Some("Title")},
          ls \in GridLabels(2) :
        LET grid == two_subplots_grid(orientation)
        IN  IF IsNone(grid)
            THEN /\ call' = [fn |-> "two_subplots", caller |-> "two_subplots",
                             orientation |-> orientation, pc |-> "done"]
                 /\ ret' = Raises("OrientationError", MsgOrientation)
            ELSE /\ call' = TwoSubplotsFrame(orientation,
                     [x_data |-> [i \in 1..2 |-> DataOf("x", i - 1)],
                      y_data |-> [i \in 1..2 |-> DataOf("y", i - 1)],
                      n_rows |-> Get(grid).n_rows, n_cols |-> Get(grid).n_cols,
                      x_labels |-> ls.x_labels, y_labels |-> ls.y_labels,
                      data_labels |-> ls.data_labels, plot_title |-> title,
                      subplot_title |-> ls.subplot_title, auto_label |-> auto,
                      is_scatter |-> scatter, subplot_dictionary |-> sp,
                      plot_dictionary |-> pd])
                 /\ ret' = NoRet
    /\ obj' = obj
    /\ drawn' = <<>>

NextTwoSubplots ==
    \/ CallTwoSubplots
    \/ NPlotterSurface
    \/ NPlotterStyles
    \/ NPlotterSubplot
    \/ NPlotterFinish
    \/ Return

SpecTwoSubplots == InitIdle /\ [][NextTwoSubplots]_vars

\* the grids of the surfaces created so far
GridsCreated == {<<drawn[n].args.n_rows, drawn[n].args.n_cols>> : n \in Issued("subplots")}

\* C23: two_subplots lays 'h' out as a grid of 1 row and 2 columns and 'v'
\* as one of 2 rows and 1 column; for every other orientation it raises
\* OrientationError, and nothing was created or drawn when it does.
C23_Orientation ==
    Via("two_subplots") =>
        IF call.orientation = "h"
        THEN call.fn = "n_plotter" /\ ret.raised # "OrientationError" /\ GridsCreated \subseteq {<<1, 2>>}
        ELSE IF call.orientation = "v"
        THEN call.fn = "n_plotter" /\ ret.raised # "OrientationError" /\ GridsCreated \subseteq {<<2, 1>>}
        ELSE call.fn = "two_subplots" /\ ret.raised = "OrientationError" /\ drawn = <<>>

C23_Witness ==
    /\ Via("two_subplots") /\ call.orientation = "v"
    /\ InNPlotter("done") /\ ret.raised = ""
    /\ GridsCreated = {<<2, 1>>}
    /\ SeriesDrawn(0) # {} /\ SeriesDrawn(1) # {}

(***************************************************************************)
(* Claims on plot_with_dual_axes and its wrappers, checked under           *)
(* SpecWrappers.                                                           *)
(***************************************************************************)
\* a call of plot_with_dual_axes by the caller, or through plot_xy
DirectOrXY == InDualAxes /\ ("caller" \in DOMAIN call => call.caller = "plot_xy")

\* the entries of the log that draw the primary series
PrimarySeries ==
    {n \in DOMAIN drawn : /\ drawn[n].op \in {"plot", "scatter"}
                          /\ drawn[n].args.x = "x1_data" /\ drawn[n].args.y = "y1_data"}

\* the call is past the statement pc
Past(pc) ==
    \E i, j \in DOMAIN DualOrder : DualOrder[i] = pc /\ DualOrder[j] = call.pc /\ i < j

\* the call is over and returned its axes
ReturnedAxes == InDual("done") /\ ret.raised = ""

\* C24: with an axis supplied to plot_xy or plot_with_dual_axes no surface
\* is created, the primary series is drawn on the supplied axis and the
\* primary axis returned is the supplied one; with no axis supplied, no
\* surface is created before the request is validated and exactly one from
\* then on.
C24_SuppliedAxis ==
    DirectOrXY =>
        IF call.args.axis # NoAxes
        THEN /\ Issued("subplots") = {}
             /\ \A n \in PrimarySeries : drawn[n].ax = call.args.axis
             /\ (Past("primary") /\ ret.raised = "") => PrimarySeries # {}
             /\ ReturnedAxes => Get(ret.value).axes[1] = call.args.axis
        ELSE Cardinality(Issued("subplots")) = IF call.ax1 # NoAxes THEN 1 ELSE 0

C24_Witness ==
    /\ Via("plot_xy") /\ call.args.axis = CallerAxes
    /\ ReturnedAxes
    /\ Get(ret.value).axes = <<CallerAxes>>
    /\ \E n \in PrimarySeries : drawn[n].ax = CallerAxes

\* a label that is a string with something in it
ProperLabel(label) == ~IsNone(label) /\ Get(label) \notin {"", NoneLabel}

\* the labels handed to the calls op logged so far
Handed(op) == {drawn[n].args.label : n \in Issued(op)}

\* C25: plot_two_column_file with auto_label true and no label supplied
\* hands an x-axis label, a y-axis label and a title to the drawing calls,
\* and each of them is a string that is not empty.
C25_AutoLabelsFile ==
    (/\ Via("plot_two_column_file") /\ InDualAxes
     /\ call.args.auto_label
     /\ call.args.axis_labels = ListOf3(None, None, None)
     /\ IsNone(call.args.plot_title)
     /\ Past("primary") /\ ret.raised = "")
    => \A op \in {"set_xlabel", "set_ylabel", "set_title"} :
          Handed(op) # {} /\ \A label \in Handed(op) : ProperLabel(label)

(***************************************************************************)
(* A further claim on dual_axes_label_management, checked under            *)
(* SpecLabels.                                                             *)
(***************************************************************************)
\* C26: dual_axes_label_management returns finalized strings: whatever the
\* inputs, x1y1_label, x1y2_label, x2y1_label and plot_title of the result
\* are strings, none of them absent.
C26_FinalizedStrings ==
    (InLabels /\ ret.raised = "" /\ ~IsNone(ret.value)) =>
        /\ ~IsNone(Resolved.x1y1_label)
        /\ ~IsNone(Resolved.x1y2_label)
        /\ ~IsNone(Resolved.x2y1_label)
        /\ ~IsNone(Resolved.plot_title)

(***************************************************************************)
(* Further claims on plot_with_dual_axes, checked under SpecDualAxes.      *)
(***************************************************************************)
\* the entries of the log that draw the secondary series
SecondarySeries ==
    {n \in DOMAIN drawn : /\ drawn[n].op \in {"plot", "scatter"}
                          /\ ~(drawn[n].args.x = "x1_data" /\ drawn[n].args.y = "y1_data")}

\* the secondary series of the mode was supplied
SecondarySupplied ==
    IF call.args.use_twin_x THEN ~IsNone(call.args.y2_data) ELSE ~IsNone(call.args.x2_data)

\* the values the claim speaks of: a number, a string, a sequence of one
\* or of two elements
OneOrTwo(value) ==
    \/ value.kind \in {"num", "str"}
    \/ IsSequence(value) /\ Len(value.items) \in {1, 2}

\* what the claim gives the primary series (s = 0) and the secondary one
\* (s = 1) for a field that holds value
Share(value, s) ==
    IF IsSequence(value)
    THEN value.items[IF Len(value.items) = 2 THEN s + 1 ELSE 1]
    ELSE value

\* the series drawn by the entries ns received the share s of every field
Received(ns, s) ==
    /\ ns # {}
    /\ \A n \in ns : \A i \in DOMAIN StyleItems :
          drawn[n].args.kwargs[i] = Item(StyleItems[i].key, Share(StyleItems[i].value, s))

\* C27: when plot_with_dual_axes draws two series with style fields that
\* hold a scalar or a sequence of one or two elements, the call does not
\* fail; for a sequence of two the primary series receives element 0 and
\* the secondary one element 1, for a sequence of one both receive its
\* element, and for a scalar both receive the scalar unchanged.
C27_StyleShares ==
    (/\ InDual("done") /\ ValidationPassed /\ SecondarySupplied
     /\ \A i \in DOMAIN StyleItems : OneOrTwo(StyleItems[i].value))
    => /\ ret.raised = ""
       /\ Received(PrimarySeries, 0)
       /\ Received(SecondarySeries, 1)

\* the labels dual_axes_label_management resolves for the call's arguments
ResolvedForCall ==
    dual_axes_label_management(call.args.x1y1_label, call.args.x1y2_label,
                               call.args.x2y1_label, call.args.auto_label,
                               call.args.axis_labels, call.args.plot_title,
                               call.args.use_twin_x)

\* one of the three resolved series labels is a non-empty string
SomeSeriesLabel ==
    \/ TruthyLabel(ResolvedForCall.x1y1_label)
    \/ TruthyLabel(ResolvedForCall.x1y2_label)
    \/ TruthyLabel(ResolvedForCall.x2y1_label)

\* the axes created by twinx() or twiny() so far
TwinsCreated == {TwinAxes : n \in Issued("twinx") \cup Issued("twiny")}

\* C28: a completed call of plot_with_dual_axes has issued a legend call
\* if and only if one of the three resolved series labels is a non-empty
\* string, so none with auto_label false and no series label supplied; the
\* legend is issued once, on the primary axes, with the handles of the
\* primary axes followed by those of the secondary axes if there is one.
C28_Legend ==
    ReturnedAxes =>
        /\ (Issued("legend") # {}) <=> SomeSeriesLabel
        /\ (/\ ~call.args.auto_label
            /\ IsNone(call.args.x1y1_label)
            /\ IsNone(call.args.x1y2_label)
            /\ IsNone(call.args.x2y1_label)) => Issued("legend") = {}
        /\ Cardinality(Issued("legend")) <= 1
        /\ \A n \in Issued("legend") :
              /\ drawn[n].ax = call.ax1
              /\ drawn[n].args.handles =
                    IF TwinsCreated = {} THEN <<call.ax1>>
                    ELSE <<call.ax1>> \o <<CHOOSE a \in TwinsCreated : TRUE>>

C28_Witness ==
    /\ ReturnedAxes
    /\ ~call.args.auto_label /\ call.args.use_twin_x
    /\ IsNone(call.args.x1y1_label) /\ ~IsNone(call.args.x1y2_label)
    /\ SecondarySeries # {}
    /\ \E n \in Issued("legend") : drawn[n].args.handles = <<call.ax1, call.ax2>>

\* C29: a completed call of plot_with_dual_axes returns a pair of axes if
\* and only if the secondary series of its mode was supplied and drawn;
\* with the primary series alone it creates no secondary axes and returns
\* the primary axes by itself, whatever use_twin_x is.
C29_PairIffSecondary ==
    ReturnedAxes =>
        /\ Get(ret.value).pair <=> (SecondarySupplied /\ SecondarySeries # {})
        /\ (IsNone(call.args.x2_data) /\ IsNone(call.args.y2_data)) =>
              /\ TwinsCreated = {}
              /\ Get(ret.value).axes = <<call.ax1>>

(***************************************************************************)
(* A further claim on n_plotter, checked under SpecNPlotter.               *)
(***************************************************************************)
\* the draw-series calls logged so far
AllSeries == {n \in DOMAIN drawn : drawn[n].op \in {"plot", "scatter"}}

\* C30: with at least K = n_rows * n_cols series in x_data and in y_data,
\* a call of n_plotter that is over has issued exactly K draw-series
\* calls, one for each subplot index i in 0..K-1 and in that order, with
\* x_data[i], y_data[i] and the i-th style mapping, whatever the lengths of
\* x_labels, y_labels, data_labels and subplot_title.
C30_AllSeriesDrawn ==
    (InNPlotter("done") /\ Len(call.args.x_data) >= K /\ Len(call.args.y_data) >= K) =>
        /\ Cardinality(AllSeries) = K
        /\ \A i \in 0..(K - 1) :
              /\ Cardinality(SeriesDrawn(i)) = 1
              /\ \A n \in SeriesDrawn(i) :
                    /\ drawn[n].args.x = call.args.x_data[i + 1]
                    /\ drawn[n].args.y = call.args.y_data[i + 1]
                    /\ drawn[n].args.kwargs = main_dict_at(StyleItems, i)
        /\ \A i, j \in 0..(K - 1) : \A n \in SeriesDrawn(i), m \in SeriesDrawn(j) :
              i < j => n < m

====
